---- MODULE Spec2Model ----
\* A model of the dota2-coach-analyzer backend: the hero benchmark store
\* (heroStatisticsService), the per-match analysis orchestrator (matchService),
\* the back-fill of a user's history, the key-moment extractor and the
\* session grouping.  Decimal columns are kept as integers in hundredths.
EXTENDS Integers, Sequences, FiniteSets, TLC

VARIABLES
  hero_statistics,  \* table hero_statistics: hero name -> row, or NoRow
  updates,          \* the updateHeroStatistics calls in flight (a sequence)
  started,          \* how many updateHeroStatistics calls were started
  recorded,         \* history: per hero, the calls that returned and the sum of their samples
  baseline,         \* history: per hero, the row the seed script wrote (n = 0: none)
  overlapped,       \* history: per hero, did the read..write window of a call ever overlap
                    \* that of another call (.calls) or a run of the seed script (.seed)
  contributed,      \* history: per (matchId, slot), the samples of that participant of
                    \* that match that were written into hero_statistics
  rows,             \* getPlaySessions: the rows its query returns (ORDER BY start_time ASC)
  queryFails,       \* getPlaySessions: does the query throw
  sessions,         \* getPlaySessions: [value |-> the returned list], Undefined before the call returns
  momentInput,      \* extractKeyMoments: its arguments [matchData, playerAccountId]
  keyMoments,       \* extractKeyMoments: the returned analysis, Undefined before the call returns
  detectorCall,     \* a call of a history or timeline detector: [fn |-> its name, its arguments]
  detectorResult,   \* what that call returned, Undefined before it returns
  provider,         \* what the match provider holds: match id -> match record
  analyzed_matches, \* table analyzed_matches: (match_id, player_slot) -> row, or NoRow
  now,              \* the database clock NOW() reads
  calls,            \* the getMatchAnalysis calls in flight (a sequence)
  callsStarted,     \* how many getMatchAnalysis calls were started
  saves,            \* the saveMatchAnalysis calls fired and not awaited, still pending
  backfill,         \* the run of backfillUserMatches under way, pc "idle" when none
  backfillsStarted, \* how many runs of backfillUserMatches were started
  last              \* history: the getMatchAnalysis call that ended last, and how

statsVars == <<hero_statistics, updates, started, recorded, baseline, overlapped, contributed>>
sessionVars == <<rows, queryFails, sessions>>
momentVars == <<momentInput, keyMoments>>
detectorVars == <<detectorCall, detectorResult>>
orchVars == <<provider, analyzed_matches, now, calls, callsStarted, saves, backfill, backfillsStarted, last>>
vars == <<hero_statistics, updates, started, recorded, baseline, overlapped, contributed,
          rows, queryFails, sessions, momentInput, keyMoments, detectorCall, detectorResult,
          provider, analyzed_matches, now, calls, callsStarted, saves, backfill,
          backfillsStarted, last>>

\* ------------------------------------------------------------------ bounds
MaxUpdates == 3
MaxRows == 3
MaxRuns == 2

Heroes == {"h1", "h2"}
MatchIds == {"m1", "m2"}
MatchKeys == [matchId : MatchIds, slot : {0, 1, 128, 129}]
\* the key of an updateHeroStatistics call that no match analysis made
Direct == [direct |-> TRUE]
Samples == {300, 301, 500}

NoRow == [none |-> TRUE]
Undefined == [undefined |-> TRUE]

\* ------------------------------------------------- heroStatisticsService

\* seedHeroStatistics.ts: a seeded row stands for 100 "virtual" matches.
SeedVirtualMatches == 100
SeedCarryGpm == 550
SeedSupportGpm == 300

SeedGpm(h) == IF h = "h1" THEN SeedCarryGpm ELSE SeedSupportGpm

\* A value written to a DECIMAL(10,2) column is rounded to two decimals:
\* num/den (both >= 0) in hundredths, half rounded up.
RoundDiv(num, den) == (2 * num + den) \div (2 * den)

\* updateAvg with the weight of the old mean forgotten.
updateAvgUnweighted(oldAvg, n, newValue) == RoundDiv(oldAvg + 100 * newValue, 2)

\* updateAvg of updateHeroStatistics, on its way into the DECIMAL(10,2) column:
\* (oldAvg * n + newValue) / (n + 1), with oldAvg in hundredths.
updateAvg(oldAvg, n, newValue) == RoundDiv(oldAvg * n + 100 * newValue, n + 1)

\* getHeroStatistics: the row of the hero, or null when there is none.
getHeroStatistics(h) ==
  IF hero_statistics[h] = NoRow THEN NoRow
  ELSE [totalMatches |-> hero_statistics[h].total_matches,
        avgGpm |-> hero_statistics[h].avg_gpm]

RemoveAt(s, i) == SubSeq(s, 1, i - 1) \o SubSeq(s, i + 1, Len(s))

InFlight(h) == \E i \in 1..Len(updates) : updates[i].heroName = h /\ updates[i].pc = "write"

\* A caller invokes updateHeroStatistics(performance): the call is now pending
\* on its first await, the SELECT of getHeroStatistics.
NewUpdate(h, x, key, owner) ==
  [heroName |-> h, gpm |-> x, pc |-> "read", currentStats |-> NoRow, key |-> key, owner |-> owner]

StartUpdate(h, x) ==
  /\ started < MaxUpdates
  /\ started' = started + 1
  /\ updates' = Append(updates, NewUpdate(h, x, Direct, "caller"))
  /\ UNCHANGED <<hero_statistics, recorded, baseline, overlapped, contributed,
                 sessionVars, momentVars, detectorVars, orchVars>>

\* The SELECT of the call runs: currentStats = await getHeroStatistics(heroName).
UpdateRead(i) ==
  /\ i \in 1..Len(updates)
  /\ updates[i].pc = "read"
  /\ updates' = [updates EXCEPT ![i].pc = "write",
                                ![i].currentStats = getHeroStatistics(updates[i].heroName)]
  /\ overlapped' = [overlapped EXCEPT ![updates[i].heroName].calls = @ \/ InFlight(updates[i].heroName)]
  /\ UNCHANGED <<hero_statistics, started, recorded, baseline, contributed,
                 sessionVars, momentVars, detectorVars, orchVars>>

\* WrittenRow with an INSERT that replaces the row it collides with.
WrittenRowUpsert(row, u) ==
  IF u.currentStats = NoRow
  THEN [total_matches |-> 1, avg_gpm |-> 100 * u.gpm]
  ELSE [total_matches |-> row.total_matches + 1,
        avg_gpm |-> updateAvg(u.currentStats.avgGpm, u.currentStats.totalMatches, u.gpm)]

\* The row the INSERT or UPDATE of the call leaves, given the row it finds.
\* INSERT on an existing hero_name violates UNIQUE(hero_name): the error is
\* caught and logged, the table is unchanged.  UPDATE adds one to the column
\* total_matches of the row as it is now and overwrites the averages with the
\* ones computed from the row as it was read.
WrittenRow(row, u) ==
  IF u.currentStats = NoRow
  THEN IF row = NoRow
       THEN [total_matches |-> 1, avg_gpm |-> 100 * u.gpm]
       ELSE row
  ELSE [total_matches |-> row.total_matches + 1,
        avg_gpm |-> updateAvg(u.currentStats.avgGpm, u.currentStats.totalMatches, u.gpm)]

\* Does the write of the call fail (INSERT of a hero_name that exists by now)?
InsertConflicts(row, u) == u.currentStats = NoRow /\ row # NoRow

UpdateWrite(i) ==
  /\ i \in 1..Len(updates)
  /\ updates[i].pc = "write"
  /\ LET u == updates[i] IN
       /\ hero_statistics' = [hero_statistics EXCEPT ![u.heroName] = WrittenRow(@, u)]
       /\ recorded' = [recorded EXCEPT ![u.heroName] = [n |-> @.n + 1, sum |-> @.sum + u.gpm]]
       /\ contributed' = IF u.key = Direct \/ InsertConflicts(hero_statistics[u.heroName], u)
                         THEN contributed
                         ELSE [contributed EXCEPT ![u.key] = @ + 1]
  /\ updates' = RemoveAt(updates, i)
  /\ UNCHANGED <<started, baseline, overlapped, sessionVars, momentVars, detectorVars, orchVars>>

\* seedHeroStatistics: a hero without a row gets the benchmark of its role
\* with total_matches = 100.
Seed(h) ==
  /\ hero_statistics[h] = NoRow
  /\ hero_statistics' = [hero_statistics EXCEPT
                           ![h] = [total_matches |-> SeedVirtualMatches, avg_gpm |-> 100 * SeedGpm(h)]]
  /\ baseline' = [baseline EXCEPT ![h] = [n |-> SeedVirtualMatches, avg |-> 100 * SeedGpm(h)]]
  /\ overlapped' = [overlapped EXCEPT ![h].seed = @ \/ InFlight(h)]
  /\ UNCHANGED <<updates, started, recorded, contributed, sessionVars, momentVars, detectorVars, orchVars>>

StatsInit ==
  /\ hero_statistics = [h \in Heroes |-> NoRow]
  /\ updates = <<>>
  /\ started = 0
  /\ recorded = [h \in Heroes |-> [n |-> 0, sum |-> 0]]
  /\ baseline = [h \in Heroes |-> [n |-> 0, avg |-> 0]]
  /\ overlapped = [h \in Heroes |-> [calls |-> FALSE, seed |-> FALSE]]
  /\ contributed = [k \in MatchKeys |-> 0]

SessionIdle ==
  /\ rows = <<>>
  /\ queryFails = FALSE
  /\ sessions = Undefined

StatsNext ==
  \/ \E h \in Heroes, x \in Samples : StartUpdate(h, x)
  \/ \E i \in 1..Len(updates) : UpdateRead(i)
  \/ \E i \in 1..Len(updates) : UpdateWrite(i)
  \/ \E h \in Heroes : Seed(h)

MomentIdle ==
  /\ momentInput = Undefined
  /\ keyMoments = Undefined

DetectorIdle ==
  /\ detectorCall = Undefined
  /\ detectorResult = Undefined

\* The matches the provider holds: m1 has participants in slots 0 and 128,
\* m2, played after m1, in slots 1 and 129.  Empty inventory slots are 0, item 999 is not in ITEM_NAMES.
DefaultMatch(matchId) ==
  IF matchId = "m1"
  THEN [match_id |-> "m1", start_time |-> 1000, duration |-> 2400, radiant_win |-> TRUE,
        players |-> <<
          [account_id |-> 101, player_slot |-> 0, hero_id |-> "h1",
           kills |-> 10, deaths |-> 2, assists |-> 5, last_hits |-> 350,
           gold_per_min |-> 600, hero_damage |-> 20000, net_worth |-> 20000, lane_role |-> 1,
           items |-> <<1, 76, 63, 61, 29, 999>>,
           kills_log |-> <<[time |-> -30, key |-> "h2"], [time |-> 900, key |-> "h2"],
                           [time |-> 910, key |-> "h2"]>>,
           life_state |-> <<0, 0, 2>>,
           purchase_log |-> <<[key |-> "blink", time |-> 700]>>],
          [player_slot |-> 128, hero_id |-> "h2",
           kills |-> 1, deaths |-> 10, assists |-> 8, last_hits |-> 30,
           gold_per_min |-> 240, hero_damage |-> 4000, net_worth |-> 6000, lane_role |-> 1,
           obs_placed |-> 3, sen_placed |-> 2,
           items |-> <<30, 60, 29, 0, 0, 0>>] >>,
        objectives |-> <<[team |-> 2, type |-> "CHAT_MESSAGE_ROSHAN_KILL", time |-> 1500]>>,
        radiant_gold_adv |-> <<0, -4000, -4000, -4000, -4000, -4000, 2000>>]
  ELSE [match_id |-> "m2", start_time |-> 5000, duration |-> 1800, radiant_win |-> FALSE,
        players |-> <<
          [account_id |-> 101, player_slot |-> 1, hero_id |-> "h1",
           kills |-> 2, deaths |-> 9, assists |-> 3, last_hits |-> 80,
           gold_per_min |-> 380, hero_damage |-> 9000, net_worth |-> 16000, lane_role |-> 0,
           items |-> <<29, 44, 0, 0, 0, 0>>],
          [account_id |-> 102, player_slot |-> 129, hero_id |-> "h2",
           kills |-> 0, deaths |-> 4, assists |-> 12, last_hits |-> 20,
           gold_per_min |-> 230, hero_damage |-> 3000, net_worth |-> 5000, lane_role |-> 3,
           obs_placed |-> 0, sen_placed |-> 0,
           items |-> <<135, 104, 29, 0, 0, 0>>] >>]

\* No analysis was requested yet, the table analyzed_matches is empty.
OrchInit ==
  /\ provider = [m \in MatchIds |-> DefaultMatch(m)]
  /\ analyzed_matches = [k \in MatchKeys |-> NoRow]
  /\ now = 0
  /\ calls = <<>>
  /\ callsStarted = 0
  /\ saves = <<>>
  /\ backfill = [pc |-> "idle", accountId |-> 0, queue |-> <<>>, successCount |-> 0, errorCount |-> 0]
  /\ backfillsStarted = 0
  /\ last = [seq |-> 0, request |-> Undefined, fetch |-> "none", env |-> Undefined,
             kind |-> "none", detectors |-> {}, result |-> Undefined, fired |-> <<>>]

InitStats == StatsInit /\ SessionIdle /\ MomentIdle /\ DetectorIdle /\ OrchInit

SpecStats == InitStats /\ [][StatsNext]_vars

\* ------------------------------------------------- sessionService

\* "45 minute gap = new session"
SessionGapMinutes == 45

StartTimes == {0, 1000, 4200, 4201, 10000}
Durations == {1500, 1501}

SessionMatch == [startTime : StartTimes, duration : Durations]

\* The results of the query: rows in ascending start_time order.
RowLists ==
  {r \in UNION {[1..n -> SessionMatch] : n \in 0..MaxRows} :
     \A i \in 1..(Len(r) - 1) : r[i].startTime <= r[i + 1].startTime}

Reverse(s) == [i \in 1..Len(s) |-> s[Len(s) + 1 - i]]

\* buildSession: the session object of a run of matches (the win/KDA/GPM
\* statistics of the object are left out).
buildSession(ms, sessionId) ==
  [sessionId |-> sessionId,
   matches |-> ms,
   startTime |-> ms[1].startTime,
   endTime |-> ms[Len(ms)].startTime + ms[Len(ms)].duration,
   totalMatches |-> Len(ms)]

\* The comparison with < in place of <=.
JoinsSessionStrict(lastMatch, match) ==
  match.startTime - (lastMatch.startTime + lastMatch.duration) < SessionGapMinutes * 60

\* gapMinutes <= 45, with gapMinutes = (match.startTime - lastMatchEndTime) / 60
JoinsSession(lastMatch, match) ==
  match.startTime - (lastMatch.startTime + lastMatch.duration) <= SessionGapMinutes * 60

\* The loop with "currentSession = []" where the code has "currentSession = [match]".
RECURSIVE GroupLoopLosesOpener(_, _, _, _, _)
GroupLoopLosesOpener(ms, i, currentSession, out, sessionId) ==
  IF i > Len(ms)
  THEN IF Len(currentSession) > 0
       THEN Append(out, buildSession(currentSession, sessionId))
       ELSE out
  ELSE IF Len(currentSession) = 0
       THEN GroupLoopLosesOpener(ms, i + 1, <<ms[i]>>, out, sessionId)
       ELSE IF JoinsSession(currentSession[Len(currentSession)], ms[i])
            THEN GroupLoopLosesOpener(ms, i + 1, Append(currentSession, ms[i]), out, sessionId)
            ELSE GroupLoopLosesOpener(ms, i + 1, <<>>,
                                      Append(out, buildSession(currentSession, sessionId)),
                                      sessionId + 1)

\* The loop "for (const match of matches)" from match i on.
RECURSIVE GroupLoop(_, _, _, _, _)
GroupLoop(ms, i, currentSession, out, sessionId) ==
  IF i > Len(ms)
  THEN \* Don't forget the last session
       IF Len(currentSession) > 0
       THEN Append(out, buildSession(currentSession, sessionId))
       ELSE out
  ELSE IF Len(currentSession) = 0
       THEN GroupLoop(ms, i + 1, <<ms[i]>>, out, sessionId)
       ELSE IF JoinsSession(currentSession[Len(currentSession)], ms[i])
            THEN GroupLoop(ms, i + 1, Append(currentSession, ms[i]), out, sessionId)
            ELSE GroupLoop(ms, i + 1, <<ms[i]>>,
                           Append(out, buildSession(currentSession, sessionId)), sessionId + 1)

\* getPlaySessions: [] when the query throws or returns no row, else the
\* sessions in reverse chronological order.
getPlaySessions(ms, fails) ==
  IF fails THEN <<>>
  ELSE IF Len(ms) = 0 THEN <<>>
  ELSE Reverse(GroupLoop(ms, 1, <<>>, <<>>, 1))

SessionInit ==
  /\ rows \in RowLists
  /\ queryFails \in BOOLEAN
  /\ sessions = Undefined

GetPlaySessions ==
  /\ sessions = Undefined
  /\ sessions' = [value |-> getPlaySessions(rows, queryFails)]
  /\ UNCHANGED <<rows, queryFails, statsVars, momentVars, detectorVars, orchVars>>

SessionNext == GetPlaySessions

InitSessions == StatsInit /\ SessionInit /\ MomentIdle /\ DetectorIdle /\ OrchInit

SpecSessions == InitSessions /\ [][SessionNext]_vars

\* ------------------------------------------------- analysisService

\* JS property access: the value of field f, "undefined" when the object has none.
Field(obj, f) == IF f \in DOMAIN obj THEN obj[f] ELSE "undefined"

\* obj.f || 0 for an optional count.
OrZero(obj, f) == IF f \in DOMAIN obj THEN obj[f] ELSE 0

Insight(type, category, severity, title) ==
  [insightType |-> type, category |-> category, severity |-> severity, title |-> title]

\* heroDataService.getHeroRoles for the heroes of the model.
getHeroRoles(hero) == IF hero = "h1" THEN <<"Carry">> ELSE <<"Support", "Disabler">>

Includes(seq, x) == \E i \in 1..Len(seq) : seq[i] = x

\* expectedRolesForPosition
expectedRolesForPosition(pos) ==
  CASE pos = 1 -> <<"Carry", "Nuker">>
    [] pos = 2 -> <<"Nuker", "Initiator", "Disabler">>
    [] pos = 3 -> <<"Durable", "Initiator", "Disabler">>
    [] pos = 4 -> <<"Support", "Disabler", "Initiator">>
    [] pos = 5 -> <<"Support", "Disabler", "Nuker">>
    [] OTHER -> <<>>

\* "Slots 0-2 or 128-130 are typically cores"
isCoreSlot(playerSlot) == playerSlot % 128 < 3

\* kdaRatio < 2, kdaRatio > 5 without the division
KdaBelow2(st) == IF st.deaths = 0 THEN st.kills + st.assists < 2
                 ELSE st.kills + st.assists < 2 * st.deaths
KdaAbove5(st) == IF st.deaths = 0 THEN st.kills + st.assists > 5
                 ELSE st.kills + st.assists > 5 * st.deaths

\* 0. hero-role mismatch: the position actually played, from lane_role and stats.
\* laneRole 0 stands for every falsy lane_role (absent, null, 0).
actualPosition(st, duration) ==
  LET roles == getHeroRoles(st.heroId)
      obs == OrZero(st, "obsPlaced")
  IN IF st.laneRole = 1
       THEN IF Includes(roles, "Support") \/ (st.goldPerMin < 300 /\ obs > 2)
               \/ st.lastHits * 60 < duration * 2
            THEN 5 ELSE 1
     ELSE IF st.laneRole = 3
       THEN IF Includes(roles, "Support") /\ st.goldPerMin < 350 /\ obs > 1 THEN 4 ELSE 3
     ELSE st.laneRole

MismatchInsight(st, duration) ==
  IF st.laneRole = 0 THEN <<>>
  ELSE LET roles == getHeroRoles(st.heroId)
           expected == expectedRolesForPosition(actualPosition(st, duration))
       IN IF Len(expected) > 0 /\ Len(roles) > 0
             /\ ~(\E i \in 1..Len(roles) : Includes(expected, roles[i]))
          THEN <<Insight("mistake", "decision_making", "high", "Hero-role mismatch detected")>>
          ELSE <<>>

When(cond, insight) == IF cond THEN <<insight>> ELSE <<>>

\* analyzePlayerPerformance: the rule-based insights, in the order of the checks.
analyzePlayerPerformance(st, duration) ==
  LET isCore == isCoreSlot(st.playerSlot)
      isSupport == ~isCore
      wardsPlaced == OrZero(st, "obsPlaced") + OrZero(st, "senPlaced")
      expectedWards == duration \div 120
  IN MismatchInsight(st, duration)
     \o When(isCore /\ st.lastHits * 600 < duration * 42,
             Insight("mistake", "farm_efficiency", "high", "Low last hit count for a core role"))
     \o When(isCore /\ st.goldPerMin < 400,
             Insight("mistake", "farm_efficiency", "medium", "Low gold per minute"))
     \o When(st.deaths > 8,
             Insight("mistake", "positioning", IF st.deaths > 12 THEN "critical" ELSE "high",
                     "High death count"))
     \o When(KdaBelow2(st) /\ st.deaths > 5,
             Insight("mistake", "teamfight", "medium", "Low KDA ratio"))
     \o When(isSupport /\ 2 * wardsPlaced < expectedWards,
             Insight("mistake", "vision", "high", "Insufficient ward placement"))
     \o When(isSupport /\ st.goldPerMin < 250,
             Insight("missed_opportunity", "farm_efficiency", "low", "Very low GPM for support"))
     \o When(st.heroDamage < 5000 /\ duration > 25 * 60,
             Insight("mistake", "teamfight", "medium", "Low hero damage output"))
     \o When(KdaAbove5(st) /\ st.kills > 5,
             Insight("good_play", "teamfight", "low", "Excellent KDA ratio"))
     \o When(isCore /\ st.lastHits * 60 > duration * 8,
             Insight("good_play", "farm_efficiency", "low", "Excellent farming"))

\* The role the performance analysis reports to its caller (detectedRole):
\* Core if goldPerMin > 350 or lastHits per minute > 3, else Support.
classifyRole(st, duration) ==
  IF st.goldPerMin > 350 \/ st.lastHits * 60 > 3 * duration THEN "Core" ELSE "Support"


\* [...new Set(xs)]: the distinct values in order of first occurrence.
RECURSIVE Distinct(_)
Distinct(xs) ==
  IF Len(xs) = 0 THEN <<>>
  ELSE LET rest == Distinct(SubSeq(xs, 1, Len(xs) - 1))
       IN IF Includes(rest, xs[Len(xs)]) THEN rest ELSE Append(rest, xs[Len(xs)])

Take(xs, n) == SubSeq(xs, 1, IF Len(xs) < n THEN Len(xs) ELSE n)

generateAnalysisSummary(insights) ==
  [criticalMistakes |-> Len(SelectSeq(insights, LAMBDA i : Field(i, "severity") = "critical")),
   highMistakes |-> Len(SelectSeq(insights, LAMBDA i : Field(i, "severity") = "high")),
   mediumMistakes |-> Len(SelectSeq(insights, LAMBDA i : Field(i, "severity") = "medium")),
   lowMistakes |-> Len(SelectSeq(insights, LAMBDA i : Field(i, "severity") = "low")),
   topCategories |-> Take(Distinct([k \in 1..Len(insights) |-> Field(insights[k], "category")]), 5)]

\* ------------------------------------------------- itemBuildService

\* The entries of ITEM_NAMES the model's inventories draw on.
ITEM_NAMES ==
  [id \in {1, 29, 30, 44, 59, 60, 61, 63, 72, 75, 76, 104, 135} |->
     CASE id = 1 -> "Blink Dagger"
       [] id = 29 -> "Boots of Speed"
       [] id = 30 -> "Gem of True Sight"
       [] id = 44 -> "Hand of Midas"
       [] id = 59 -> "Radiance"
       [] id = 60 -> "Butterfly"
       [] id = 61 -> "Daedalus"
       [] id = 63 -> "Battle Fury"
       [] id = 72 -> "Aghanim's Scepter"
       [] id = 75 -> "Heart of Tarrasque"
       [] id = 76 -> "Black King Bar"
       [] id = 104 -> "Force Staff"
       [] id = 135 -> "Glimmer Cape"]

\* ITEM_NAMES[id] || `Item ${id}`
ItemNameOrFallback(id) == IF id \in DOMAIN ITEM_NAMES THEN ITEM_NAMES[id] ELSE "Item <id>"

\* The names of the whole ITEM_NAMES table that contain the substring.
NamesContaining(needle) ==
  CASE needle = "Item" -> {"Item <id>"}
    [] needle = "Blink" -> {"Blink Dagger", "Overwhelming Blink", "Swift Blink", "Arcane Blink"}
    [] needle = "Boots" -> {"Boots of Speed", "Phase Boots", "Arcane Boots", "Boots of Bearing"}
    [] needle = "Scepter" -> {"Aghanim's Scepter", "Eul's Scepter of Divinity"}
    [] needle = "Linken" -> {"Linken's Sphere"}
    [] needle = "Heart" -> {"Heart of Tarrasque"}
    [] needle = "Skadi" -> {"Eye of Skadi"}
    [] needle = "Midas" -> {"Hand of Midas"}
    [] needle = "Glimmer" -> {"Glimmer Cape"}
    [] needle = "Gem" -> {"Gem of True Sight"}
    [] needle = "Abyssal" -> {"Abyssal Blade"}
    [] needle \in {"BKB", "Wraith Band", "Null Talisman", "Bracer"} -> {}
    [] OTHER -> {needle}

\* item.includes(needle)
NameIncludes(item, needle) == item \in NamesContaining(needle)

IncludesAny(item, needles) == \E n \in needles : NameIncludes(item, n)

Some(xs, needles) == \E i \in 1..Len(xs) : IncludesAny(xs[i], needles)

ItemInsight(category, severity, message) ==
  [category |-> category, severity |-> severity, message |-> message,
   recommendation |-> "advice"]

Part(insights, positives, keyIssues, delta) ==
  [insights |-> insights, positives |-> positives, keyIssues |-> keyIssues, delta |-> delta]

NoPart == Part(<<>>, <<>>, <<>>, 0)

analyzeCoreItems(items, duration, stats) ==
  Part(When(stats.gpm < 450 /\ duration > 20 * 60
              /\ ~Some(items, {"Battle Fury", "Maelstrom", "Radiance"}),
            ItemInsight("Farming", "important", "Low GPM without farming accelerator")),
       When(Some(items, {"Scepter"}), "Built Aghanim's Scepter for power spike")
       \o When(duration > 40 * 60
                 /\ Len(SelectSeq(items, LAMBDA it : IncludesAny(it,
                      {"Daedalus", "Butterfly", "Abyssal", "Bloodthorn", "Skadi", "Satanic"}))) >= 2,
               "Strong late-game itemization"),
       <<>>, 0)

analyzeSupportItems(items, duration) ==
  LET utilityItems == Cardinality({k \in {"g", "f", "m"} :
                        \/ k = "g" /\ Some(items, {"Glimmer"})
                        \/ k = "f" /\ Some(items, {"Force Staff"})
                        \/ k = "m" /\ Some(items, {"Mekansm", "Guardian Greaves"})})
      carryItems == SelectSeq(items, LAMBDA it : IncludesAny(it,
                      {"Daedalus", "Butterfly", "Radiance", "Battle Fury", "Monkey King Bar"}))
  IN Part(When(utilityItems = 0,
               ItemInsight("Utility", "critical", "No utility items as support"))
          \o When(Len(carryItems) > 0,
                  ItemInsight("Role Understanding", "important", "Building carry items as support")),
          (IF utilityItems = 0 THEN <<>> ELSE <<"Good support itemization">>)
          \o When(Some(items, {"Gem"}), "Bought Gem for vision control"),
          When(utilityItems = 0, "No utility items"), 0)

\* The checks of analyzeItemBuild after the role-specific ones, in order.
BkbCheck(items, role, duration) ==
  IF role = "Core" /\ duration > 25 * 60
  THEN IF ~Some(items, {"Black King Bar"})
       THEN Part(<<ItemInsight("Survivability", "critical", "Missing Black King Bar in a long game")>>,
                 <<>>, <<"No BKB in 25+ min game">>, -15)
       ELSE Part(<<>>, <<"Built BKB for survivability">>, <<>>, 5)
  ELSE NoPart

MobilityCheck(items, role) ==
  LET hasMobility == Some(items, {"Blink", "Force Staff", "Hurricane Pike"})
  IN IF ~hasMobility /\ role = "Core"
     THEN Part(<<ItemInsight("Mobility", "important", "No mobility item detected")>>, <<>>, <<>>, -8)
     ELSE IF hasMobility THEN Part(<<>>, <<"Good mobility item choice">>, <<>>, 3)
     ELSE NoPart

LateGameCheck(items, duration) ==
  IF duration > 35 * 60
  THEN LET hasBoots == Some(items, {"Boots"})
           lowValueItems == SelectSeq(items, LAMBDA it : IncludesAny(it,
                              {"Wraith Band", "Null Talisman", "Bracer"}))
       IN Part(When(Len(lowValueItems) > 0,
                    ItemInsight("Item Efficiency", "suggestion", "Still carrying early-game items")),
               When(~hasBoots, "Sold boots for extra item slot (late game)"),
               <<>>,
               (IF Len(lowValueItems) > 0 THEN -5 ELSE 0) + (IF ~hasBoots THEN 5 ELSE 0))
  ELSE NoPart

DamageCheck(items, role, stats) ==
  IF role = "Core"
  THEN LET damageItems == SelectSeq(items, LAMBDA it : IncludesAny(it,
                            {"Daedalus", "Monkey King Bar", "Butterfly", "Desolator",
                             "Bloodthorn", "Mjollnir", "Radiance", "Battle Fury"}))
       IN IF Len(damageItems) = 0 /\ stats.netWorth > 15000
          THEN Part(<<ItemInsight("Damage Output", "critical",
                                  "No major damage items despite high net worth")>>,
                    <<>>, <<"No damage items">>, -12)
          ELSE IF Len(damageItems) >= 2
          THEN Part(<<>>, <<"Good damage itemization">>, <<>>, 8)
          ELSE NoPart
  ELSE NoPart

DefensiveCheck(items, stats) ==
  IF stats.deaths > 8
       /\ Len(SelectSeq(items, LAMBDA it : IncludesAny(it,
              {"BKB", "Linken", "Aeon Disk", "Lotus Orb", "Heart", "Skadi"}))) = 0
  THEN Part(<<ItemInsight("Survivability", "critical", "deaths with no defensive items")>>,
            <<>>, <<"High deaths, no defensive items">>, -15)
  ELSE NoPart

FarmCheck(items, role, stats) ==
  IF stats.gpm > 550 /\ role = "Core"
       /\ Some(items, {"Battle Fury", "Maelstrom", "Mjollnir", "Radiance", "Midas"})
  THEN Part(<<>>, <<"Excellent farming">>, <<>>, 5)
  ELSE NoPart

Max(a, b) == IF a > b THEN a ELSE b
Min(a, b) == IF a < b THEN a ELSE b

RECURSIVE Collect(_, _)
Collect(parts, f) ==
  IF Len(parts) = 0 THEN <<>> ELSE parts[1][f] \o Collect(SubSeq(parts, 2, Len(parts)), f)

\* The score changes of the role-independent checks past the first are lost.
SumDeltaOfFirstChecks(parts) == parts[1].delta + parts[2].delta

RECURSIVE SumDelta(_)
SumDelta(parts) ==
  IF Len(parts) = 0 THEN 0 ELSE parts[1].delta + SumDelta(SubSeq(parts, 2, Len(parts)))

BaseItemScore == 70

analyzeItemBuild(detectedRole, finalItems, duration, stats) ==
  LET itemNames == SelectSeq([k \in 1..Len(finalItems) |-> ItemNameOrFallback(finalItems[k])],
                          LAMBDA name : ~NameIncludes(name, "Item"))
      parts == << IF detectedRole = "Core" THEN analyzeCoreItems(itemNames, duration, stats)
                  ELSE analyzeSupportItems(itemNames, duration),
                  BkbCheck(itemNames, detectedRole, duration),
                  MobilityCheck(itemNames, detectedRole),
                  LateGameCheck(itemNames, duration),
                  DamageCheck(itemNames, detectedRole, stats),
                  DefensiveCheck(itemNames, stats),
                  FarmCheck(itemNames, detectedRole, stats) >>
  IN [insights |-> Collect(parts, "insights"),
      finalItems |-> itemNames,
      itemScore |-> Max(0, Min(100, BaseItemScore + SumDelta(parts))),
      keyIssues |-> Collect(parts, "keyIssues"),
      positives |-> Collect(parts, "positives")]

\* ------------------------------------------------- aiCoachingService

GoodInsight(title) ==
  [insightType |-> "mistake", category |-> "positioning", severity |-> "high",
   title |-> title, description |-> "d", recommendation |-> "r"]

\* Elements a reply's JSON array can hold.
NoTitle == [insightType |-> "mistake", category |-> "vision", severity |-> "low",
            description |-> "d", recommendation |-> "r"]
EmptySeverity == [GoodInsight("t") EXCEPT !.severity = ""]
OffEnum == [insightType |-> "tip", category |-> "macro", severity |-> "severe",
            title |-> "t", description |-> "d", recommendation |-> "r"]
JsonNull == [null |-> TRUE]

TextReply(json, items) == [type |-> "text", json |-> json, items |-> items]

Replies ==
  { [type |-> "tool_use"],
    TextReply("none", <<>>),
    TextReply("invalid", <<>>),
    TextReply("array", <<>>),
    TextReply("array", <<GoodInsight("a"), NoTitle, GoodInsight("b")>>),
    TextReply("array", [k \in 1..6 |-> GoodInsight("a")]),
    TextReply("array", <<NoTitle, EmptySeverity>>),
    TextReply("array", <<GoodInsight("a"), JsonNull>>),
    TextReply("array", <<OffEnum>>) }

MaxRetries == 3

\* What the coaching API does on this call: whether a key is configured, how
\* many attempts in a row are answered 429, and what the attempt after answers.
AIEnvs ==
  {[hasKey |-> FALSE, rateLimited |-> 0, final |-> TextReply("array", <<GoodInsight("a")>>)]}
  \cup {[hasKey |-> TRUE, rateLimited |-> n, final |-> [error |-> 500]] : n \in {0, MaxRetries + 1}}
  \cup {[hasKey |-> TRUE, rateLimited |-> n, final |-> TextReply("array", <<GoodInsight("a")>>)] :
          n \in {1, MaxRetries}}
  \cup {[hasKey |-> TRUE, rateLimited |-> 0, final |-> r] : r \in Replies}

Truthy(x) == x \notin {"undefined", ""}

Returned(v) == [value |-> v]
Threw(status) == [threw |-> status]

parseAIResponse(reply) ==
  IF reply.json = "none" THEN <<>>
  ELSE IF reply.json = "invalid" THEN <<>>
  ELSE IF \E k \in 1..Len(reply.items) : reply.items[k] = JsonNull THEN <<>>
  ELSE Take(SelectSeq(reply.items,
                   LAMBDA i : /\ Truthy(Field(i, "title"))
                              /\ Truthy(Field(i, "description"))
                              /\ Truthy(Field(i, "recommendation"))
                              /\ Truthy(Field(i, "insightType"))
                              /\ Truthy(Field(i, "category"))
                              /\ Truthy(Field(i, "severity"))), 5)

\* The body of the try block on one attempt.
Attempt(env, retryCount) ==
  IF retryCount < env.rateLimited THEN Threw(429)
  ELSE IF "error" \in DOMAIN env.final THEN Threw(env.final.error)
  ELSE Returned(parseAIResponse(IF env.final.type = "text" THEN env.final
                                ELSE TextReply("none", <<>>)))

RECURSIVE generateAICoachingInsights(_, _)
generateAICoachingInsights(env, retryCount) ==
  IF ~env.hasKey THEN Returned(<<>>)
  ELSE LET r == Attempt(env, retryCount)
       IN IF "threw" \in DOMAIN r
          THEN IF r.threw = 429 /\ retryCount < MaxRetries
               THEN generateAICoachingInsights(env, retryCount + 1)
               ELSE Returned(<<>>)
          ELSE r

\* ------------------------------------------------- keyMomentsService

\* Array.prototype.sort with a numeric comparator: stable, ascending by key.
\* The elements are [key |-> number, item |-> element].
RECURSIVE InsertKeyed(_, _)
InsertKeyed(sorted, x) ==
  IF Len(sorted) = 0 THEN <<x>>
  ELSE IF sorted[Len(sorted)].key <= x.key THEN Append(sorted, x)
  ELSE Append(InsertKeyed(SubSeq(sorted, 1, Len(sorted) - 1), x), sorted[Len(sorted)])

RECURSIVE SortKeyed(_)
SortKeyed(xs) ==
  IF Len(xs) = 0 THEN <<>>
  ELSE InsertKeyed(SortKeyed(SubSeq(xs, 1, Len(xs) - 1)), xs[Len(xs)])

Items(keyed) == [k \in 1..Len(keyed) |-> keyed[k].item]

SortNumbers(xs) == Items(SortKeyed([k \in 1..Len(xs) |-> [key |-> xs[k], item |-> xs[k]]]))

SortByTimestamp(ms) ==
  Items(SortKeyed([k \in 1..Len(ms) |-> [key |-> ms[k].timestamp, item |-> ms[k]]]))

Moment(timestamp, type, title, importance, detail) ==
  [timestamp |-> timestamp, type |-> type, title |-> title,
   importance |-> importance, detail |-> detail]

\* p.account_id, Undefined when the participant has none.
AccountOf(p) == IF "account_id" \in DOMAIN p THEN [id |-> p.account_id] ELSE Undefined

\* array.find(pred): the first match, Undefined when there is none.
Find(hits) == IF Len(hits) = 0 THEN Undefined ELSE hits[1]

\* an optional array field, empty when absent
ArrayOf(obj, f) == IF f \in DOMAIN obj THEN obj[f] ELSE <<>>

KillMoments(player) ==
  LET log == ArrayOf(player, "kills_log")
  IN [k \in 1..Len(log) |->
        LET isFirstBlood == log[k].time < 120 /\ k = 1
        IN Moment(log[k].time, "kill", IF isFirstBlood THEN "First Blood!" ELSE "Kill",
                  IF isFirstBlood THEN "high" ELSE "medium", 0)]

\* The 0-based indexes (minutes) at which life_state is 2, in order.
DeadMinutes(player) ==
  LET ls == ArrayOf(player, "life_state")
  IN SelectSeq([k \in 1..Len(ls) |-> k - 1], LAMBDA m : ls[m + 1] = 2)

DeathMoments(player) ==
  LET dead == DeadMinutes(player)
  IN [deathCount \in 1..Len(dead) |->
        Moment(dead[deathCount] * 60, "death", "Death",
               IF deathCount <= 3 THEN "high" ELSE "medium", deathCount)]

getStreakName(count) ==
  IF count >= 5 THEN "RAMPAGE"
  ELSE IF count = 4 THEN "Ultra Kill"
  ELSE IF count = 3 THEN "Triple Kill"
  ELSE "Double Kill"

MultiKillWindow == 18

\* the inner while loop: the last index j of the streak, 1-based
RECURSIVE StreakEnd(_, _)
StreakEnd(kills, j) ==
  IF j < Len(kills) /\ kills[j + 1] - kills[j] <= MultiKillWindow
  THEN StreakEnd(kills, j + 1) ELSE j

\* the for loop of detectMultiKills, i 1-based
RECURSIVE MultiKillLoop(_, _)
MultiKillLoop(kills, i) ==
  IF i >= Len(kills) THEN <<>>
  ELSE IF kills[i + 1] - kills[i] <= MultiKillWindow
  THEN LET j == StreakEnd(kills, i + 1)
           streakCount == 2 + (j - (i + 1))
       IN <<Moment(kills[i], "multikill", getStreakName(streakCount), "high", streakCount)>>
          \o MultiKillLoop(kills, j + 1)
  ELSE MultiKillLoop(kills, i + 1)

\* The scan over the log as it comes, without the sort.
detectMultiKillsUnsorted(player) ==
  LET log == ArrayOf(player, "kills_log")
  IN MultiKillLoop([k \in 1..Len(log) |-> log[k].time], 1)

detectMultiKills(player) ==
  LET log == ArrayOf(player, "kills_log")
  IN MultiKillLoop(SortNumbers([k \in 1..Len(log) |-> log[k].time]), 1)

TeamOfSlot(slot) == IF slot < 128 THEN "radiant" ELSE "dire"

ObjectiveMoments(matchData, player) ==
  LET objs == SelectSeq(ArrayOf(matchData, "objectives"),
                LAMBDA o : \/ (IF o.team = 2 THEN "radiant" ELSE "dire") = TeamOfSlot(player.player_slot)
                           \/ o.type = "CHAT_MESSAGE_ROSHAN_KILL")
  IN [k \in 1..Len(objs) |->
        LET isRoshan == objs[k].type = "CHAT_MESSAGE_ROSHAN_KILL"
        IN Moment(objs[k].time, "objective", IF isRoshan THEN "Roshan Slain" ELSE "Objective",
                  IF isRoshan THEN "high" ELSE "medium", 0)]

\* The purchase keys of the model whose lower-cased form contains a major item name.
MajorPurchaseKeys == {"blink", "Black_King_Bar"}

PurchaseMoments(player) ==
  LET major == SelectSeq(ArrayOf(player, "purchase_log"), LAMBDA q : q.key \in MajorPurchaseKeys)
  IN [k \in 1..Len(major) |-> Moment(major[k].time, "item_purchase", "Major Item", "medium", 0)]

detectComebackMoments(matchData, player) ==
  LET goldAdv == ArrayOf(matchData, "radiant_gold_adv")
      sign == IF TeamOfSlot(player.player_slot) = "radiant" THEN 1 ELSE -1
      hits == SelectSeq([k \in 1..Max(0, Len(goldAdv) - 5) |-> k + 4],
                        LAMBDA i : /\ sign * goldAdv[i - 5 + 1] < -3000
                                   /\ sign * goldAdv[i + 1] > sign * goldAdv[i - 5 + 1] + 5000)
  IN [k \in 1..Len(hits) |->
        Moment(hits[k] * 60, "comeback", "Comeback Moment", "high",
               sign * goldAdv[hits[k] + 1] - sign * goldAdv[hits[k] - 5 + 1])]

TeamFightWindow == 30

\* The cluster never extended past its third event.
ClusterEndAtThird(events, clusterStart, j) == j

\* the inner while loop of detectTeamFights: the first index past the cluster
RECURSIVE ClusterEnd(_, _, _)
ClusterEnd(events, clusterStart, j) ==
  IF j <= Len(events) /\ events[j] - clusterStart <= TeamFightWindow
  THEN ClusterEnd(events, clusterStart, j + 1) ELSE j

RECURSIVE TeamFightLoop(_, _)
TeamFightLoop(events, i) ==
  IF i + 2 > Len(events) THEN <<>>
  ELSE IF events[i + 2] - events[i] <= TeamFightWindow
  THEN LET j == ClusterEnd(events, events[i], i + 3)
           clusterSize == j - i
       IN <<Moment(events[i], "team_fight", "Team Fight",
                   IF clusterSize >= 5 THEN "high" ELSE "medium", clusterSize)>>
          \o TeamFightLoop(events, j)
  ELSE TeamFightLoop(events, i + 1)

detectTeamFights(player) ==
  LET log == ArrayOf(player, "kills_log")
      dead == DeadMinutes(player)
  IN TeamFightLoop(SortNumbers([k \in 1..Len(log) |-> log[k].time]
                               \o [k \in 1..Len(dead) |-> dead[k] * 60]), 1)

scoreMoment(m) ==
  (IF m.importance = "high" THEN 10 ELSE IF m.importance = "medium" THEN 5 ELSE 2)
  + (IF m.type = "multikill" THEN 8 ELSE 0)
  + (IF m.type = "comeback" THEN 7 ELSE 0)
  + (IF m.type = "team_fight" THEN 6 ELSE 0)
  + (IF m.type = "objective" /\ m.title = "Roshan Slain" THEN 5 ELSE 0)
  + (IF m.title = "First Blood!" THEN 5 ELSE 0)

\* The first `count` moments in time order, unranked.
getTopMomentsUnranked(moments, count) == Take(moments, count)

\* The array `moments` after getTopMoments returned, had sort() been applied
\* to it and not to a copy.
momentsAfterRankingInPlace(moments) ==
  Items(SortKeyed([k \in 1..Len(moments) |->
     [key |-> 0 - scoreMoment(moments[k]), item |-> moments[k]]]))

\* The array `moments` after getTopMoments returned: map() makes a new array,
\* and sort(), slice() and the second sort() act on that one.
momentsAfterRanking(moments) == moments

getTopMoments(moments, count) ==
  SortByTimestamp(Take(Items(SortKeyed([k \in 1..Len(moments) |->
     [key |-> 0 - scoreMoment(moments[k]), item |-> moments[k]]])), count))

TopCount == 5

extractKeyMoments(matchData, playerAccountId) ==
  LET player == Find(SelectSeq(matchData.players, LAMBDA q : AccountOf(q) = playerAccountId))
  IN IF player = Undefined
     THEN [moments |-> <<>>, topMoments |-> <<>>, duration |-> matchData.duration]
     ELSE LET moments == SortByTimestamp(
                 KillMoments(player) \o DeathMoments(player) \o detectMultiKills(player)
                 \o ObjectiveMoments(matchData, player) \o PurchaseMoments(player)
                 \o detectComebackMoments(matchData, player) \o detectTeamFights(player))
          IN [moments |-> moments, topMoments |-> getTopMoments(moments, TopCount),
              duration |-> matchData.duration]

\* The match records extractKeyMoments is applied to.
MaxKills == 3
\* kills_log: up to maxKills kills in time order, a kill before the horn has a negative time
KillLogs(maxKills) ==
  {[k \in 1..Len(ts) |-> [time |-> ts[k], key |-> "h2"]] :
     ts \in {t \in UNION {[1..n -> {-30, 100, 110, 125}] : n \in 0..maxKills} :
               \A k \in 1..(Len(t) - 1) : t[k] <= t[k + 1]}}

\* and for the multi-kill scan: kill logs of up to maxStreak kills in any order
MaxStreak == 5

MomentMatch(slot, killsLog, lifeState, objectives, purchaseLog, goldAdv, duration) ==
  [match_id |-> "m1", duration |-> duration,
   players |-> << [player_slot |-> 128 - slot, hero_id |-> "h2",
                   kills_log |-> <<[time |-> 200, key |-> "h1"]>>],
                  [account_id |-> 101, player_slot |-> slot, hero_id |-> "h1",
                   kills_log |-> killsLog, life_state |-> lifeState,
                   purchase_log |-> purchaseLog] >>,
   objectives |-> objectives, radiant_gold_adv |-> goldAdv]

MomentInputs(maxKills, maxStreak) ==
  {[matchData |-> MomentMatch(slot, kl, ls, ob, pl, ga, d), playerAccountId |-> acc] :
     slot \in {0, 128}, kl \in KillLogs(maxKills),
     ls \in {<<0, 0, 0>>, <<0, 0, 2>>, <<0, 2, 2>>},
     ob \in {<<>>, <<[team |-> 2, type |-> "building_kill", time |-> 300],
                     [team |-> 3, type |-> "CHAT_MESSAGE_ROSHAN_KILL", time |-> 400],
                     [team |-> 3, type |-> "building_kill", time |-> 500]>>},
     pl \in {<<>>, <<[key |-> "tango", time |-> -60], [key |-> "blink", time |-> 450],
                     [key |-> "Black_King_Bar", time |-> 580]>>},
     ga \in {<<>>, <<0, -4000, -4000, -4000, -4000, -4000, 2000>>,
                   <<0, 4000, 4000, 4000, 4000, 4000, -2000>>},
     d \in {600, 1800},
     acc \in {[id |-> 101], [id |-> 999], Undefined}}
  \cup {[matchData |-> MomentMatch(0, [k \in 1..Len(ts) |-> [time |-> ts[k], key |-> "h2"]],
                                   <<>>, <<>>, <<>>, <<>>, 1800),
         playerAccountId |-> [id |-> 101]] :
          ts \in UNION {[1..n -> {100, 110, 125, 300}] : n \in 0..maxStreak}}

MomentInit ==
  /\ momentInput \in MomentInputs(MaxKills, MaxStreak)
  /\ keyMoments = Undefined

ExtractKeyMoments ==
  /\ keyMoments = Undefined
  /\ keyMoments' = extractKeyMoments(momentInput.matchData, momentInput.playerAccountId)
  /\ UNCHANGED <<momentInput, statsVars, sessionVars, detectorVars, orchVars>>

MomentNext == ExtractKeyMoments

InitMoments == StatsInit /\ SessionIdle /\ MomentInit /\ DetectorIdle /\ OrchInit

SpecMoments == InitMoments /\ [][MomentNext]_vars

\* ------------------------------------------------- matchService

\* fetchMatchFromOpenDota / fetchMatchDetails when the provider answers 200
Provider(matchId) == provider[matchId]

isRadiantPlayer(playerSlot) == playerSlot < 128

\* a record with field f set to obj[g] when obj has g, the empty record otherwise
Optional(obj, g, f) == IF g \in DOMAIN obj THEN f :> obj[g] ELSE [x \in {} |-> 0]

\* the PlayerStats getMatchAnalysis hands to analyzePlayerPerformance
StatsOf(p) ==
  [heroId |-> p.hero_id, playerSlot |-> p.player_slot, kills |-> p.kills, deaths |-> p.deaths,
   assists |-> p.assists, lastHits |-> p.last_hits, goldPerMin |-> p.gold_per_min,
   heroDamage |-> p.hero_damage, netWorth |-> p.net_worth, laneRole |-> p.lane_role]
  @@ Optional(p, "obs_placed", "obsPlaced") @@ Optional(p, "sen_placed", "senPlaced")

\* [item_0 .. item_5].filter(item => item !== undefined && item !== 0)
FinalItems(p) == SelectSeq(p.items, LAMBDA id : id # 0)

playerWon(matchData, p) ==
  \/ isRadiantPlayer(p.player_slot) /\ matchData.radiant_win
  \/ ~isRadiantPlayer(p.player_slot) /\ ~matchData.radiant_win

\* the argument of saveMatchAnalysis and the argument of updateHeroStatistics.
\* A user is named by the account it owns: backfillUserMatches gets the user
\* with its account, and the requests of this model carry the token of the
\* user that owns the analysed participant's account (none when anonymous).
SaveArgs(matchId, matchData, p, detectedRole) ==
  [matchId |-> matchId, playerSlot |-> p.player_slot, heroName |-> p.hero_id,
   detectedRole |-> detectedRole, goldPerMin |-> p.gold_per_min,
   duration |-> matchData.duration, won |-> playerWon(matchData, p),
   userId |-> AccountOf(p)]

UpdateArgs(matchId, p) ==
  [heroName |-> p.hero_id, gpm |-> p.gold_per_min,
   key |-> [matchId |-> matchId, slot |-> p.player_slot]]

allInsightsOfBoth(aiInsights, ruleInsights) == aiInsights \o ruleInsights

\* "Fallback to rule-based insights if AI fails"
allInsights(aiInsights, ruleInsights) ==
  IF Len(aiInsights) > 0 THEN aiInsights ELSE ruleInsights

\* an item-build insight as it is merged into the insight list
CombinedItemInsight(insight) ==
  [category |-> insight.category, severity |-> insight.severity, message |-> insight.message,
   suggestion |-> insight.recommendation,
   impact |-> IF insight.severity = "critical" THEN "high"
              ELSE IF insight.severity = "important" THEN "medium" ELSE "low"]

\* The slot analysed: the requested one, slot 0 when none is requested.
TargetSlot(request) == IF "playerSlot" \in DOMAIN request THEN request.playerSlot ELSE 0

TargetPlayerOrFirst(matchData, request) ==
  LET hits == SelectSeq(matchData.players, LAMBDA q : q.player_slot = TargetSlot(request))
  IN IF Len(hits) = 0 THEN matchData.players[1] ELSE hits[1]

\* matchData.players.find(p => p.player_slot === targetPlayerSlot)
TargetPlayer(matchData, request) ==
  Find(SelectSeq(matchData.players, LAMBDA q : q.player_slot = TargetSlot(request)))

Detectors == {"performance", "aiCoaching", "itemBuild", "keyMoments"}

\* What a call of getMatchAnalysis does when it ends: the value it returns
\* (kind "null": null, kind "throw": it rejects), the detectors it invoked, and
\* the saveMatchAnalysis / updateHeroStatistics calls it fires without awaiting.
Outcome(kind, detectors, result, fired) ==
  [kind |-> kind, detectors |-> detectors, result |-> result, fired |-> fired]

\* the result object built from a stored row
CachedResult(row) ==
  [heroName |-> row.hero_name, playerSlot |-> row.player_slot,
   detectedRole |-> row.detected_role, goldPerMin |-> row.gold_per_min,
   parsedAt |-> row.analyzed_at, insights |-> <<>>, cached |-> TRUE]

CachedOutcomeResaved(request, row) ==
  Outcome("cached", {}, CachedResult(row),
          <<[save |-> [matchId |-> request.matchId, playerSlot |-> row.player_slot,
                       heroName |-> row.hero_name, detectedRole |-> row.detected_role,
                       goldPerMin |-> row.gold_per_min],
             update |-> [heroName |-> row.hero_name, gpm |-> row.gold_per_min,
                         key |-> [matchId |-> request.matchId, slot |-> row.player_slot]]]>>)

\* the early return on a cache hit
CachedOutcome(request, row) == Outcome("cached", {}, CachedResult(row), <<>>)

\* the status the route GET /:matchId/analysis answers with
HttpStatus(kind) ==
  IF kind = "null" THEN 404 ELSE IF kind = "throw" THEN 500 ELSE 200

\* the full analysis of a fetched match
FullOutcome(request, matchData, targetPlayer, env) ==
  LET stats == StatsOf(targetPlayer)
      ruleInsights == analyzePlayerPerformance(stats, matchData.duration)
      detectedRole == classifyRole(stats, matchData.duration)
      ai == generateAICoachingInsights(env, 0)
      base == allInsights(ai.value, ruleInsights)
      itemBuildAnalysis == analyzeItemBuild(detectedRole, FinalItems(targetPlayer),
                             matchData.duration,
                             [kills |-> targetPlayer.kills, deaths |-> targetPlayer.deaths,
                              gpm |-> targetPlayer.gold_per_min,
                              netWorth |-> targetPlayer.net_worth])
      keyMomentsAnalysis == extractKeyMoments(matchData, AccountOf(targetPlayer))
      combinedInsights == base \o [k \in 1..Len(itemBuildAnalysis.insights) |->
                                     CombinedItemInsight(itemBuildAnalysis.insights[k])]
  IN Outcome("full", Detectors,
             [heroName |-> targetPlayer.hero_id, playerSlot |-> targetPlayer.player_slot,
              detectedRole |-> detectedRole, goldPerMin |-> targetPlayer.gold_per_min,
              aiInsights |-> ai.value, ruleInsights |-> ruleInsights, allInsights |-> base,
              insights |-> combinedInsights,
              summary |-> generateAnalysisSummary(combinedInsights),
              itemBuild |-> [items |-> itemBuildAnalysis.finalItems,
                             score |-> itemBuildAnalysis.itemScore,
                             keyIssues |-> itemBuildAnalysis.keyIssues,
                             positives |-> itemBuildAnalysis.positives],
              keyMoments |-> [moments |-> keyMomentsAnalysis.moments,
                              topMoments |-> keyMomentsAnalysis.topMoments]],
             <<[save |-> SaveArgs(request.matchId, matchData, targetPlayer, detectedRole),
                update |-> UpdateArgs(request.matchId, targetPlayer)]>>)

NullOutcome == Outcome("null", {}, Undefined, <<>>)
ThrowOutcome == Outcome("throw", {}, Undefined, <<>>)

\* getMatchAnalysis after the cache check missed: fetch is what the provider
\* call does ("ok", "null": no such match, "throw": it rejects).
AnalysisOutcome(request, fetch, env) ==
  IF fetch = "throw" THEN ThrowOutcome
  ELSE IF fetch = "null" THEN NullOutcome
  ELSE LET matchData == Provider(request.matchId)
           targetPlayer == TargetPlayer(matchData, request)
       IN IF targetPlayer = Undefined THEN NullOutcome
          ELSE FullOutcome(request, matchData, targetPlayer, env)

\* getCachedMatchAnalysis: the stored row of the key, NoRow (null) when there is none.
getCachedMatchAnalysis(matchId, playerSlot) ==
  analyzed_matches[[matchId |-> matchId, slot |-> playerSlot]]

\* saveMatchAnalysis: INSERT ... ON CONFLICT (match_id, player_slot) DO UPDATE
\* SET analyzed_at = NOW(); an error of the query is caught and logged.
saveMatchAnalysis(table, args, time, dbFails) ==
  IF dbFails THEN table
  ELSE [table EXCEPT ![[matchId |-> args.matchId, slot |-> args.playerSlot]] =
          IF @ = NoRow
          THEN [hero_name |-> args.heroName, player_slot |-> args.playerSlot,
                detected_role |-> args.detectedRole, gold_per_min |-> args.goldPerMin,
                user_id |-> args.userId, won |-> args.won, analyzed_at |-> time]
          ELSE [@ EXCEPT !.analyzed_at = time]]

Requests ==
  {[matchId |-> m] : m \in MatchIds}
  \cup {[matchId |-> m, playerSlot |-> sl] : m \in MatchIds, sl \in {0, 1}}

\* the requests and the coaching API behaviours of the concurrent runs
ClientRequests == {r \in Requests : r.matchId = "m1"} \cup {[matchId |-> "m2", playerSlot |-> 1]}
ClientEnvs == {e \in AIEnvs : ~e.hasKey \/ e.final = TextReply("array", <<OffEnum>>)}

\* A client requests GET /:matchId/analysis.
StartAnalysis(request) ==
  /\ callsStarted + backfillsStarted < MaxRuns
  /\ callsStarted' = callsStarted + 1
  /\ calls' = Append(calls, [request |-> request, pc |-> "cache"])
  /\ UNCHANGED <<analyzed_matches, now, saves, backfill, backfillsStarted, last,
                 provider, statsVars, sessionVars, momentVars, detectorVars>>

\* Call i ends with the outcome: its fire-and-forget calls are now pending on
\* their first query.
Finish(i, fetch, env, outcome) ==
  /\ calls' = RemoveAt(calls, i)
  /\ last' = [seq |-> last.seq + 1, request |-> calls[i].request, fetch |-> fetch,
              env |-> IF outcome.kind = "full" THEN env ELSE Undefined,
              kind |-> outcome.kind, detectors |-> outcome.detectors,
              result |-> outcome.result, fired |-> outcome.fired]
  /\ saves' = saves \o [k \in 1..Len(outcome.fired) |-> outcome.fired[k].save]
  /\ updates' = updates \o [k \in 1..Len(outcome.fired) |->
                   NewUpdate(outcome.fired[k].update.heroName, outcome.fired[k].update.gpm,
                             outcome.fired[k].update.key, "caller")]

\* The cache check of call i: skipped when no player slot was requested.
CacheCheck(i, dbFails) ==
  /\ i \in 1..Len(calls)
  /\ calls[i].pc = "cache"
  /\ LET request == calls[i].request IN
       IF "playerSlot" \notin DOMAIN request
       THEN /\ ~dbFails
            /\ calls' = [calls EXCEPT ![i].pc = "fetch"]
            /\ UNCHANGED <<last, saves, updates>>
       ELSE IF dbFails
       THEN Finish(i, "none", Undefined, ThrowOutcome)
       ELSE LET cachedAnalysis == getCachedMatchAnalysis(request.matchId, request.playerSlot)
            IN IF cachedAnalysis # NoRow
               THEN Finish(i, "none", Undefined, CachedOutcome(request, cachedAnalysis))
               ELSE /\ calls' = [calls EXCEPT ![i].pc = "fetch"]
                    /\ UNCHANGED <<last, saves, updates>>
  /\ UNCHANGED <<analyzed_matches, now, callsStarted, backfill, backfillsStarted,
                 hero_statistics, started, recorded, baseline, overlapped, contributed,
                 provider, sessionVars, momentVars, detectorVars>>

\* The rest of call i after a cache miss, from the fetch to the return.
Analyse(i, fetch, env) ==
  /\ i \in 1..Len(calls)
  /\ calls[i].pc = "fetch"
  /\ Finish(i, fetch, env, AnalysisOutcome(calls[i].request, fetch, env))
  /\ UNCHANGED <<analyzed_matches, now, callsStarted, backfill, backfillsStarted,
                 hero_statistics, started, recorded, baseline, overlapped, contributed,
                 provider, sessionVars, momentVars, detectorVars>>

\* The query of a pending saveMatchAnalysis runs.
SaveRun(i, dbFails) ==
  /\ i \in 1..Len(saves)
  /\ analyzed_matches' = saveMatchAnalysis(analyzed_matches, saves[i], now + 1, dbFails)
  /\ now' = now + 1
  /\ saves' = RemoveAt(saves, i)
  /\ UNCHANGED <<calls, callsStarted, backfill, backfillsStarted, last,
                 provider, statsVars, sessionVars, momentVars, detectorVars>>

\* ------------------------------------------------- matchHistoryService

\* "Simple role detection based on stats"
detectRole(playerData) ==
  IF (OrZero(playerData, "obs_placed") > 0 \/ OrZero(playerData, "sen_placed") > 0)
     /\ playerData.gold_per_min < 400
  THEN "Support" ELSE "Core"

\* What fetchRecentMatches can return for an account (empty on any error).
RecentLists == {<<>>, <<"m1">>, <<"m2", "m1">>}

\* backfillUserMatches(userId, accountId) is called.
StartBackfill(accountId, recentMatches) ==
  /\ callsStarted + backfillsStarted < MaxRuns
  /\ backfill.pc = "idle"
  /\ backfillsStarted' = backfillsStarted + 1
  /\ backfill' = [pc |-> IF Len(recentMatches) = 0 THEN "idle" ELSE "fetch",
                  accountId |-> accountId, queue |-> recentMatches,
                  successCount |-> 0, errorCount |-> 0]
  /\ UNCHANGED <<analyzed_matches, now, calls, callsStarted, saves, last,
                 provider, statsVars, sessionVars, momentVars, detectorVars>>

\* the loop moves to the next match, the run returns after the last one
NextMatch(b, ok) ==
  [b EXCEPT !.queue = Tail(@),
            !.pc = IF Len(b.queue) = 1 THEN "idle" ELSE "fetch",
            !.successCount = IF ok THEN @ + 1 ELSE @,
            !.errorCount = IF ok THEN @ ELSE @ + 1]

BackfillPlayer(b) ==
  Find(SelectSeq(Provider(Head(b.queue)).players, LAMBDA q : AccountOf(q) = [id |-> b.accountId]))

\* fetchMatchDetails of the match at the head of the loop, and the search for
\* the player by account id: the match is skipped when either finds nothing.
BackfillFetch(fetch) ==
  /\ backfill.pc = "fetch"
  /\ backfill' = IF fetch = "null" \/ BackfillPlayer(backfill) = Undefined
                 THEN NextMatch(backfill, FALSE)
                 ELSE [backfill EXCEPT !.pc = "save"]
  /\ UNCHANGED <<analyzed_matches, now, calls, callsStarted, saves, backfillsStarted, last,
                 provider, statsVars, sessionVars, momentVars, detectorVars>>

\* await saveMatchAnalysis(...), then updateHeroStatistics(...) is called.
BackfillSave(dbFails) ==
  /\ backfill.pc = "save"
  /\ LET matchId == Head(backfill.queue)
         playerData == BackfillPlayer(backfill)
     IN /\ analyzed_matches' =
             saveMatchAnalysis(analyzed_matches,
                               SaveArgs(matchId, Provider(matchId), playerData, detectRole(playerData)),
                               now + 1, dbFails)
        /\ updates' = Append(updates,
                             NewUpdate(playerData.hero_id, playerData.gold_per_min,
                                       [matchId |-> matchId, slot |-> playerData.player_slot],
                                       "backfill"))
  /\ now' = now + 1
  /\ backfill' = [backfill EXCEPT !.pc = "update"]
  /\ UNCHANGED <<calls, callsStarted, saves, backfillsStarted, last,
                 hero_statistics, started, recorded, baseline, overlapped, contributed,
                 provider, sessionVars, momentVars, detectorVars>>

\* await updateHeroStatistics(...) returned: the match is counted.
BackfillCounted ==
  /\ backfill.pc = "update"
  /\ ~\E i \in 1..Len(updates) : updates[i].owner = "backfill"
  /\ backfill' = NextMatch(backfill, TRUE)
  /\ UNCHANGED <<analyzed_matches, now, calls, callsStarted, saves, backfillsStarted, last,
                 provider, statsVars, sessionVars, momentVars, detectorVars>>

Accounts == {101, 102}

Next ==
  \/ \E request \in ClientRequests : StartAnalysis(request)
  \/ \E i \in 1..Len(calls), dbFails \in BOOLEAN : CacheCheck(i, dbFails)
  \/ \E i \in 1..Len(calls), fetch \in {"ok", "null", "throw"}, env \in ClientEnvs : Analyse(i, fetch, env)
  \/ \E i \in 1..Len(saves), dbFails \in BOOLEAN : SaveRun(i, dbFails)
  \/ \E i \in 1..Len(updates) : UpdateRead(i)
  \/ \E i \in 1..Len(updates) : UpdateWrite(i)
  \/ \E accountId \in Accounts, recentMatches \in RecentLists : StartBackfill(accountId, recentMatches)
  \/ \E fetch \in {"ok", "null"} : BackfillFetch(fetch)
  \/ \E dbFails \in BOOLEAN : BackfillSave(dbFails)
  \/ BackfillCounted

Init == StatsInit /\ SessionIdle /\ MomentIdle /\ DetectorIdle /\ OrchInit

Spec == Init /\ [][Next]_vars

\* ------------------------------------------------- one analysis, any input

\* The participants the analysis of one request is applied to: the player in
\* slot 0 of m1 with each inventory, death count, gold per minute and last hit
\* count below, in a match of each duration.
ProviderWith(items, deaths, gpm, lastHits, duration) ==
  [m \in MatchIds |->
     IF m = "m1"
     THEN [DefaultMatch(m) EXCEPT !.duration = duration,
                                  !.players[1].items = items,
                                  !.players[1].deaths = deaths,
                                  !.players[1].gold_per_min = gpm,
                                  !.players[1].last_hits = lastHits]
     ELSE DefaultMatch(m)]

Providers ==
  {ProviderWith(items, deaths, gpm, lastHits, duration) :
     items \in {<<1, 76, 63, 61, 29, 999>>, <<0, 0, 0, 0, 0, 0>>, <<29, 44, 0, 0, 0, 0>>,
                <<135, 30, 60, 0, 0, 0>>, <<75, 104, 72, 0, 0, 0>>},
     deaths \in {2, 9, 13}, gpm \in {240, 380, 600}, lastHits \in {30, 350},
     duration \in {1200, 2400, 2700}}
  \cup
  \* m1 with a second participant on the first one's side, at slot 1, with a
  \* kill log of its own: both under one account id, or both without one
  LET first == DefaultMatch("m1").players[1]
      second == [first EXCEPT !.player_slot = 1, !.hero_id = "h2",
                              !.kills_log = <<[time |-> 300, key |-> "h1"]>>,
                              !.life_state = <<0, 0, 0>>, !.purchase_log = <<>>]
      Anonymous(q) == [f \in DOMAIN q \ {"account_id"} |-> q[f]]
  IN {[m \in MatchIds |->
         IF m = "m1" THEN [DefaultMatch(m) EXCEPT !.players = pair] ELSE DefaultMatch(m)] :
        pair \in {<<first, second>>, <<Anonymous(first), Anonymous(second)>>}}

\* One call of getMatchAnalysis has missed the cache and is about to fetch.
AnalysisInit ==
  /\ provider \in Providers
  /\ analyzed_matches = [k \in MatchKeys |-> NoRow]
  /\ now = 0
  /\ calls \in {<<[request |-> r, pc |-> "fetch"]>> : r \in Requests}
  /\ callsStarted = 1
  /\ saves = <<>>
  /\ backfill = [pc |-> "idle", accountId |-> 0, queue |-> <<>>, successCount |-> 0, errorCount |-> 0]
  /\ backfillsStarted = 0
  /\ last = [seq |-> 0, request |-> Undefined, fetch |-> "none", env |-> Undefined,
             kind |-> "none", detectors |-> {}, result |-> Undefined, fired |-> <<>>]

AnalysisNext ==
  \E fetch \in {"ok", "null", "throw"}, env \in AIEnvs : Analyse(1, fetch, env)

InitAnalysis == StatsInit /\ SessionIdle /\ MomentIdle /\ DetectorIdle /\ AnalysisInit

SpecAnalysis == InitAnalysis /\ [][AnalysisNext]_vars

\* ------------------------------------------------- sessionService: tilt

\* The risk with the count of warnings left out.
tiltRiskOfStreakOnly(recentLosingStreak, activeWarnings) ==
  IF recentLosingStreak >= 5
     \/ \E i \in 1..Len(activeWarnings) : activeWarnings[i].severity = "danger"
  THEN "high"
  ELSE IF recentLosingStreak >= 3 THEN "medium"
  ELSE "low"

\* "Determine overall tilt risk"
tiltRisk(recentLosingStreak, activeWarnings) ==
  IF recentLosingStreak >= 5
     \/ \E i \in 1..Len(activeWarnings) : activeWarnings[i].severity = "danger"
  THEN "high"
  ELSE IF recentLosingStreak >= 3 \/ Len(activeWarnings) >= 2 THEN "medium"
  ELSE "low"

\* getTiltAnalysis.  matches: the rows of the user's query "ORDER BY analyzed_at
\* DESC LIMIT 20"; lateNight: the rows of calculateLateNightWinRate's query;
\* userSessions: what getPlaySessions(userId, 60) returns, each session the won
\* flags of its matches; fails: the first query throws.  A win rate in
\* percent is kept as the fraction wins / games, 50 as 1 / 2.
getTiltAnalysis(matches, lateNight, userSessions, fails) ==
  LET Fifty == [wins |-> 1, games |-> 2]
      Below40(r) == r.wins * 100 < 40 * r.games
      Wins(ws) == Len(SelectSeq(ws, LAMBDA r : r.won))
      default == [currentTiltRisk |-> "low", recentLosingStreak |-> 0,
                  lastMatchWon |-> JsonNull, activeWarnings |-> <<>>,
                  patterns |-> [performanceAfterLoss |-> Fifty, lateNightWinRate |-> Fifty,
                                longSessionWinRate |-> Fifty]]
      \* for (const match of matches) { if (!match.won) streak++ else break }
      recentLosingStreak ==
        IF \A i \in 1..Len(matches) : ~matches[i].won THEN Len(matches)
        ELSE (CHOOSE i \in 1..Len(matches) :
                matches[i].won /\ \A j \in 1..(i - 1) : ~matches[j].won) - 1
      \* calculatePerformanceAfterLoss: the rows ORDER BY analyzed_at ASC
      asc == Reverse(matches)
      afterLoss == {i \in 2..Len(asc) : ~asc[i - 1].won}
      performanceAfterLoss ==
        IF Len(asc) < 2 \/ afterLoss = {} THEN Fifty
        ELSE [wins |-> Cardinality({i \in afterLoss : asc[i].won}),
              games |-> Cardinality(afterLoss)]
      \* calculateLateNightWinRate
      lateNightWinRate ==
        IF Len(lateNight) < 3 THEN Fifty
        ELSE [wins |-> Wins(lateNight), games |-> Len(lateNight)]
      \* calculateLongSessionWinRate: the games from the 4th on of every session
      late == {p \in (1..Len(userSessions)) \X (4..20) : p[2] <= Len(userSessions[p[1]])}
      longSessionWinRate ==
        IF late = {} THEN Fifty
        ELSE [wins |-> Cardinality({p \in late : userSessions[p[1]][p[2]].won}),
              games |-> Cardinality(late)]
      activeWarnings ==
        (IF recentLosingStreak >= 3
         THEN <<[type |-> "losing_streak",
                 severity |-> IF recentLosingStreak >= 5 THEN "danger" ELSE "warning"]>>
         ELSE <<>>)
        \o (IF Below40(lateNightWinRate)
            THEN <<[type |-> "late_night", severity |-> "warning"]>> ELSE <<>>)
        \o (IF Below40(longSessionWinRate)
            THEN <<[type |-> "long_session", severity |-> "warning"]>> ELSE <<>>)
      currentTiltRisk == tiltRisk(recentLosingStreak, activeWarnings)
  IN IF fails \/ Len(matches) = 0 THEN default
     ELSE [currentTiltRisk |-> currentTiltRisk, recentLosingStreak |-> recentLosingStreak,
           lastMatchWon |-> matches[1].won, activeWarnings |-> activeWarnings,
           patterns |-> [performanceAfterLoss |-> performanceAfterLoss,
                         lateNightWinRate |-> lateNightWinRate,
                         longSessionWinRate |-> longSessionWinRate]]

\* getTimeOfDayStats.  hourRows: the rows of its query, each [hour, won];
\* fails: the query throws.  A bucket's winRate is wins / games of the bucket.
getTimeOfDayStats(hourRows, fails) ==
  LET Empty == [games |-> 0, wins |-> 0]
      defaultStats == [morning |-> Empty, afternoon |-> Empty, evening |-> Empty,
                       night |-> Empty, bestTimeToPlay |-> "Not enough data"]
      period(hour) == IF hour >= 6 /\ hour < 12 THEN "morning"
                      ELSE IF hour >= 12 /\ hour < 18 THEN "afternoon"
                      ELSE IF hour >= 18 /\ hour < 24 THEN "evening"
                      ELSE "night"
      stats(p) == LET of == SelectSeq(hourRows, LAMBDA r : period(r.hour) = p)
                  IN [games |-> Len(of), wins |-> Len(SelectSeq(of, LAMBDA r : r.won))]
      \* one round of "for (const [time, data] of Object.entries(timeOfDayStats))":
      \* data.games >= 3 && data.winRate > bestWinRate, with bestWinRate = -1 at first
      round(best, time) ==
        LET data == stats(time)
        IN IF data.games >= 3
              /\ (best.games = 0 \/ data.wins * best.games > best.wins * data.games)
           THEN [bestTime |-> time, wins |-> data.wins, games |-> data.games]
           ELSE best
      best == round(round(round(round([bestTime |-> "morning", wins |-> 0, games |-> 0],
                                      "morning"), "afternoon"), "evening"), "night")
      \* bestTime.charAt(0).toUpperCase() + bestTime.slice(1)
      capitalized == CASE best.bestTime = "morning" -> "Morning"
                       [] best.bestTime = "afternoon" -> "Afternoon"
                       [] best.bestTime = "evening" -> "Evening"
                       [] best.bestTime = "night" -> "Night"
  IN IF fails \/ Len(hourRows) < 5 THEN defaultStats
     ELSE [morning |-> stats("morning"), afternoon |-> stats("afternoon"),
           evening |-> stats("evening"), night |-> stats("night"),
           bestTimeToPlay |-> capitalized]

\* ------------------------------------------------- analysisService: timeline

\* The scan without the skip.
afterClusterNoSkip(i) == i

\* "Skip ahead to avoid overlapping clusters": i += 2, before the loop's i++
afterCluster(i) == i + 2

\* The farm scan without the skip.
afterDroughtNoSkip(i) == i

\* "Skip ahead": i += 2, before the loop's i++
afterDrought(i) == i + 2

\* A fight of a kind is reported whatever the count.
everyOfItsKind(count) == count >= 1

\* "Only report first poor fight to avoid spam", "Report first excellent fight":
\* the test on the counter, made after the counter was incremented.
firstOfItsKind(count) == count = 1

\* fight.players[playerSlot % 128]: the position read in a snapshot's
\* per-participant list, counted from 0
playerIndex(playerSlot) == playerSlot % 128

\* analyzeTimelineInsights: death pattern analysis, farm efficiency timeline
\* analysis and teamfight performance analysis, in that order.  The text of a
\* description is kept as the numbers it is built from.
analyzeTimelineInsights(timelineData, playerSlot) ==
  LET deaths == ArrayOf(timelineData, "killsLog")
      cluster(i) ==
        LET firstDeath == deaths[i].time
            thirdDeath == deaths[i + 2].time
            deathCount == Len(SelectSeq(deaths,
                                LAMBDA d : d.time >= firstDeath /\ d.time <= thirdDeath))
        IN [insightType |-> "mistake", category |-> "positioning",
            severity |-> IF deathCount >= 4 THEN "critical" ELSE "high",
            title |-> "Death cluster detected",
            description |-> [deathCount |-> deathCount, from |-> firstDeath, to |-> thirdDeath],
            gameTime |-> firstDeath]
      \* for (let i = 0; i < deaths.length - 2; i++) { ... i += 2 }, 1-based
      RECURSIVE loop(_)
      loop(i) ==
        IF i > Len(deaths) - 2 THEN <<>>
        ELSE IF deaths[i + 2].time - deaths[i].time <= 300
             THEN <<cluster(i)>> \o loop(afterCluster(i) + 1)
             ELSE loop(i + 1)
      lhTimeline == ArrayOf(timelineData, "lhTimeline")
      \* lhPerMinute[i], i counted from 0 as in the code
      lhPerMinute(i) == lhTimeline[i + 2] - lhTimeline[i + 1]
      drought(i) ==
        [insightType |-> "missed_opportunity", category |-> "farm_efficiency",
         severity |-> "medium", title |-> "Extended farm drought",
         description |-> [from |-> i, to |-> i + 3,
                          lastHits |-> lhPerMinute(i) + lhPerMinute(i + 1) + lhPerMinute(i + 2)],
         gameTime |-> i * 60]
      \* for (let i = 10; i < lhPerMinute.length - 2; i++) { ... i += 2 }
      RECURSIVE farmLoop(_)
      farmLoop(i) ==
        IF ~(i < (Len(lhTimeline) - 1) - 2) THEN <<>>
        ELSE IF lhPerMinute(i) < 2 /\ lhPerMinute(i + 1) < 2 /\ lhPerMinute(i + 2) < 2
             THEN <<drought(i)>> \o farmLoop(afterDrought(i) + 1)
             ELSE farmLoop(i + 1)
      teamfights == ArrayOf(timelineData, "teamfights")
      fightInsight(type, severity, title, fight, playerData) ==
        [insightType |-> type, category |-> "teamfight", severity |-> severity,
         title |-> title,
         description |-> [at |-> fight.start, damage |-> playerData.damage],
         gameTime |-> fight.start]
      \* teamfights.forEach with its two counters
      RECURSIVE fightLoop(_, _, _)
      fightLoop(k, poorPerformanceFights, excellentPerformanceFights) ==
        IF k > Len(teamfights) THEN <<>>
        ELSE LET fight == teamfights[k]
                 at == playerIndex(playerSlot) + 1
             IN IF at > Len(fight.players) THEN
                  fightLoop(k + 1, poorPerformanceFights, excellentPerformanceFights)
                ELSE
                  LET playerData == fight.players[at]
                      poor == playerData.deaths > 0 /\ playerData.damage < 500
                      excellent == /\ playerData.deaths = 0 /\ playerData.damage > 2000
                                   /\ playerData.gold_delta > 500
                      poorCount == poorPerformanceFights + (IF poor THEN 1 ELSE 0)
                      excellentCount == excellentPerformanceFights + (IF excellent THEN 1 ELSE 0)
                  IN When(poor /\ firstOfItsKind(poorCount),
                          fightInsight("mistake", "medium", "Poor teamfight execution",
                                       fight, playerData))
                     \o When(excellent /\ firstOfItsKind(excellentCount),
                             fightInsight("good_play", "low", "Excellent teamfight performance",
                                          fight, playerData))
                     \o fightLoop(k + 1, poorCount, excellentCount)
  IN loop(1)
     \o (IF Len(lhTimeline) > 10 THEN farmLoop(10) ELSE <<>>)
     \o fightLoop(1, 0, 0)

\* ------------------------------------------------- one detector call, any input

MaxHistory == 6
MaxHourRows == 5
MaxDeaths == 6
MaxMinutes == 6
MaxFights == 3

\* The calls: getTiltAnalysis over every win/loss history, getTimeOfDayStats
\* over rows of every bucket, analyzeTimelineInsights over every kill log in
\* ascending order, over every last-hit curve of 11 samples and up to
\* maxMinutes more (busy or idle opening minutes, then 0, 1 or 2 last hits a
\* minute), over every list of up to maxFights team-fight snapshots of two
\* participants, and with all three inputs at once; analyzePlayerPerformance
\* over players in a core and in a support slot, with and without ward counts;
\* fetchMatchFromOpenDota for a match id and for the demo id, before its first
\* request.  A query that throws returns no row.
DetectorCalls(maxHistory, maxHourRows, maxDeaths, maxMinutes, maxFights) ==
  LET Won == [won : BOOLEAN]
      Histories == UNION {[1..n -> Won] : n \in 0..maxHistory}
      L == [won |-> FALSE]
      W == [won |-> TRUE]
      HourRow == {[hour |-> 2, won |-> FALSE], [hour |-> 8, won |-> TRUE],
                  [hour |-> 8, won |-> FALSE], [hour |-> 13, won |-> TRUE],
                  [hour |-> 13, won |-> FALSE], [hour |-> 20, won |-> TRUE]}
      Death == [time : {60, 120, 180, 400, 600, 700}]
      Logs == {d \in UNION {[1..n -> Death] : n \in 0..maxDeaths} :
                 \A i \in 1..(Len(d) - 1) : d[i].time <= d[i + 1].time}
              \cup {<<[time |-> 60], [time |-> 120], [time |-> 180], [time |-> 200]>>}
      \* the cumulative array of a sequence of per-minute last hits
      Cumulative(perMinute) ==
        [k \in 1..(Len(perMinute) + 1) |->
           Len(SelectSeq(SubSeq(perMinute, 1, k - 1), LAMBDA x : x = 1))
           + 2 * Len(SelectSeq(SubSeq(perMinute, 1, k - 1), LAMBDA x : x = 2))
           + 5 * Len(SelectSeq(SubSeq(perMinute, 1, k - 1), LAMBDA x : x = 5))]
      Openings == {[k \in 1..10 |-> 5], [k \in 1..10 |-> IF k >= 8 THEN 0 ELSE 5]}
      Curves == {Cumulative(o \o t) :
                   o \in Openings, t \in UNION {[1..n -> {0, 1, 2}] : n \in 0..maxMinutes}}
                \cup {Cumulative([k \in 1..9 |-> 0])}
      Poor == [deaths |-> 1, damage |-> 100, gold_delta |-> -300]
      Excellent == [deaths |-> 0, damage |-> 3000, gold_delta |-> 600]
      SubRecord == {Poor, Excellent, [deaths |-> 1, damage |-> 500, gold_delta |-> 0],
                    [deaths |-> 0, damage |-> 3000, gold_delta |-> 500]}
      Fights == {[k \in 1..Len(f) |-> [start |-> 300 * k, players |-> f[k]]] :
                   f \in UNION {[1..n -> (SubRecord \X {Poor, Excellent})] : n \in 0..maxFights}}
  IN {[fn |-> "getTiltAnalysis", matches |-> m, lateNight |-> n, userSessions |-> u,
       fails |-> FALSE] :
        m \in Histories,
        n \in {<<>>, <<L, L, W>>, <<L, W, L, W, L>>, <<L, W>>},
        u \in {<<>>, <<<<W, W, W, L>>>>, <<<<L, L, L, W, W>>, <<W, W>>>>,
               <<<<L, W, L, L, L, W, L>>, <<W, L, W, W>>>>}}
     \cup {[fn |-> "getTiltAnalysis", matches |-> <<>>, lateNight |-> <<>>,
            userSessions |-> <<>>, fails |-> TRUE]}
     \cup {[fn |-> "getTimeOfDayStats", hourRows |-> r, fails |-> FALSE] :
             r \in UNION {[1..n -> HourRow] : n \in 0..maxHourRows}}
     \cup {[fn |-> "getTimeOfDayStats", hourRows |-> <<>>, fails |-> TRUE]}
     \cup {[fn |-> "analyzeTimelineInsights", timelineData |-> [killsLog |-> d],
            playerSlot |-> 0] : d \in Logs}
     \cup {[fn |-> "analyzeTimelineInsights", timelineData |-> [lhTimeline |-> c],
            playerSlot |-> 0] : c \in Curves}
     \cup {[fn |-> "analyzeTimelineInsights", timelineData |-> [teamfights |-> f],
            playerSlot |-> slot] : f \in Fights, slot \in {0, 1, 2, 128}}
     \cup {[fn |-> "analyzeTimelineInsights",
            timelineData |-> [killsLog |-> <<[time |-> 60], [time |-> 120], [time |-> 180]>>,
                              lhTimeline |-> Cumulative([k \in 1..14 |-> 0]),
                              teamfights |-> <<[start |-> 300, players |-> <<Poor, Excellent>>]>>],
            playerSlot |-> slot] : slot \in {0, 1}}
     \cup {[fn |-> "analyzeTimelineInsights", timelineData |-> [duration |-> 0],
            playerSlot |-> 0]}
     \cup {[fn |-> "analyzePlayerPerformance", duration |-> d,
            stats |-> [heroId |-> "h2", playerSlot |-> slot, kills |-> 1, deaths |-> deaths,
                       assists |-> 8, lastHits |-> 30, goldPerMin |-> gpm,
                       heroDamage |-> 6000, netWorth |-> 6000, laneRole |-> 1] @@ wards] :
             d \in {600, 2400}, slot \in {0, 4, 131}, deaths \in {2, 9}, gpm \in {240, 300},
             wards \in {[x \in {} |-> 0], [obsPlaced |-> 0, senPlaced |-> 0],
                        [obsPlaced |-> 8], [obsPlaced |-> 6, senPlaced |-> 6]}}
     \cup {[fn |-> "fetchMatchFromOpenDota", demo |-> demo, retryCount |-> 0,
            answers |-> <<>>, waits |-> <<>>] : demo \in BOOLEAN}

DetectorInit ==
  /\ detectorCall \in DetectorCalls(MaxHistory, MaxHourRows, MaxDeaths, MaxMinutes, MaxFights)
  /\ detectorResult = Undefined

GetTiltAnalysis ==
  /\ detectorResult = Undefined
  /\ detectorCall.fn = "getTiltAnalysis"
  /\ detectorResult' = getTiltAnalysis(detectorCall.matches, detectorCall.lateNight,
                                       detectorCall.userSessions, detectorCall.fails)
  /\ UNCHANGED <<detectorCall, statsVars, sessionVars, momentVars, orchVars>>

GetTimeOfDayStats ==
  /\ detectorResult = Undefined
  /\ detectorCall.fn = "getTimeOfDayStats"
  /\ detectorResult' = getTimeOfDayStats(detectorCall.hourRows, detectorCall.fails)
  /\ UNCHANGED <<detectorCall, statsVars, sessionVars, momentVars, orchVars>>

AnalyzeTimelineInsights ==
  /\ detectorResult = Undefined
  /\ detectorCall.fn = "analyzeTimelineInsights"
  /\ detectorResult' = [value |-> analyzeTimelineInsights(detectorCall.timelineData,
                                                          detectorCall.playerSlot)]
  /\ UNCHANGED <<detectorCall, statsVars, sessionVars, momentVars, orchVars>>

AnalyzePlayerPerformance ==
  /\ detectorResult = Undefined
  /\ detectorCall.fn = "analyzePlayerPerformance"
  /\ detectorResult' = [value |-> analyzePlayerPerformance(detectorCall.stats,
                                                           detectorCall.duration)]
  /\ UNCHANGED <<detectorCall, statsVars, sessionVars, momentVars, orchVars>>

\* One more retry than the code allows.
mayRetryOnceMore(retryCount) == retryCount < 4

\* "if (retryCount < 3)"
mayRetry(retryCount) == retryCount < 3

\* What the provider can do with a request: answer 200 with the match, 200
\* with an empty body, an error status, or nothing within the 10 s timeout.
Answers == {"match", "empty", "404", "403", "429", "500", "timeout"}

\* One pass through fetchMatchFromOpenDota(matchId, retryCount): the demo id
\* returns the demo match without a request; otherwise one request is made,
\* and on 403 or 429 with retries left the call waits 2^retryCount seconds and
\* calls itself with retryCount + 1.  detectorCall keeps the answers received
\* and the waits made so far.
FetchMatchFromOpenDota ==
  /\ detectorResult = Undefined
  /\ detectorCall.fn = "fetchMatchFromOpenDota"
  /\ IF detectorCall.demo
     THEN /\ detectorResult' = [value |-> "DEMO_MATCH_DATA"]
          /\ UNCHANGED detectorCall
     ELSE \E answer \in Answers :
            LET received == [detectorCall EXCEPT !.answers = Append(@, answer)] IN
            IF answer \in {"403", "429"}
            THEN IF mayRetry(detectorCall.retryCount)
                 THEN /\ detectorCall' =
                           [received EXCEPT !.waits = Append(@, 2 ^ detectorCall.retryCount * 1000),
                                            !.retryCount = @ + 1]
                      /\ UNCHANGED detectorResult
                 ELSE /\ detectorCall' = received
                      /\ detectorResult' = [threw |-> "Rate limit exceeded - please try again later"]
            ELSE /\ detectorCall' = received
                 /\ detectorResult' = [value |-> IF answer = "match" THEN "response.data"
                                                 ELSE "null"]
  /\ UNCHANGED <<statsVars, sessionVars, momentVars, orchVars>>

DetectorNext ==
  \/ GetTiltAnalysis
  \/ GetTimeOfDayStats
  \/ AnalyzeTimelineInsights
  \/ AnalyzePlayerPerformance
  \/ FetchMatchFromOpenDota

InitDetectors == StatsInit /\ SessionIdle /\ MomentIdle /\ DetectorInit /\ OrchInit

SpecDetectors == InitDetectors /\ [][DetectorNext]_vars

\* A detector call that can take a step takes it: a query, a provider request
\* (10 s timeout) and a setTimeout all complete.
SpecDetectorsFair == InitDetectors /\ [][DetectorNext]_vars /\ WF_vars(DetectorNext)

\* ------------------------------------------------------------ claims

Abs(x) == IF x < 0 THEN -x ELSE x

\* Sum of (n0 + 1) .. (n0 + k)
RangeSum(n0, k) == k * n0 + (k * (k + 1)) \div 2

Settled(h) == \A i \in 1..Len(updates) : updates[i].heroName # h

Sequential(h) == ~overlapped[h].calls /\ ~overlapped[h].seed

\* The row of h accounts for every returned call: the count grew by the number
\* of calls and the mean is the mean of the baseline and all samples, up to the
\* rounding of the DECIMAL(10,2) column (half a hundredth per stored step).
AccountsForAll(h) ==
  LET row == hero_statistics[h]
      n == baseline[h].n + recorded[h].n
  IN /\ row # NoRow
     /\ row.total_matches = n
     /\ 2 * Abs(row.avg_gpm * n - (baseline[h].avg * baseline[h].n + 100 * recorded[h].sum))
          <= RangeSum(baseline[h].n, recorded[h].n)

\* C1: when calls for one hero run concurrently, no sample is lost: once all
\* calls have returned, total_matches grew by the number of calls and the mean
\* is the mean of all samples.
C1_NoLostSample ==
  \A h \in Heroes :
    (~overlapped[h].seed /\ Settled(h) /\ recorded[h].n > 0) => AccountsForAll(h)

\* C2 as stated: after sequential calls x1..xn, totalMatches = n and the mean
\* is exactly sum(xi)/n.
C2_SequentialMeanIsSampleMean ==
  \A h \in Heroes :
    (Sequential(h) /\ Settled(h) /\ recorded[h].n > 0) =>
      /\ getHeroStatistics(h) # NoRow
      /\ getHeroStatistics(h).totalMatches = recorded[h].n
      /\ getHeroStatistics(h).avgGpm * recorded[h].n = 100 * recorded[h].sum

\* C2 amended: after sequential calls on a hero whose row held N0 matches with
\* mean m0 (N0 = 0 without a row, 100 for a seeded row), totalMatches = N0 + n
\* and the mean is (m0*N0 + sum xi)/(N0 + n) up to the two-decimal rounding of
\* each stored step.
C2_SequentialMeanWithinRounding ==
  \A h \in Heroes :
    (Sequential(h) /\ Settled(h) /\ recorded[h].n > 0) => AccountsForAll(h)

C2_Witness ==
  \E h \in Heroes :
    /\ Sequential(h) /\ Settled(h) /\ recorded[h].n = 3
    /\ hero_statistics[h] # NoRow
    /\ hero_statistics[h].avg_gpm * 3 # 100 * recorded[h].sum

\* The matches of the returned sessions, oldest session first.
RECURSIVE Flatten(_)
Flatten(ss) == IF Len(ss) = 0 THEN <<>> ELSE Head(ss).matches \o Flatten(Tail(ss))

Grouped == sessions # Undefined /\ ~queryFails

\* C9: the returned sessions are a strict partition of the match list: the
\* sessions, oldest first, laid end to end are the list itself (every match in
\* exactly one session, in ascending start-time order), and no session is empty.
C9_SessionsPartition ==
  Grouped =>
    /\ Flatten(Reverse(sessions.value)) = rows
    /\ \A k \in 1..Len(sessions.value) : Len(sessions.value[k].matches) > 0

C9_Witness == Grouped /\ Len(sessions.value) >= 2 /\ Len(rows) = 3

\* The chronological index of the session that holds row i.
RECURSIVE SessionOf(_, _)
SessionOf(ss, i) ==
  IF Len(Head(ss).matches) >= i THEN 1 ELSE 1 + SessionOf(Tail(ss), i - Len(Head(ss).matches))

Gap(i) == rows[i + 1].startTime - (rows[i].startTime + rows[i].duration)

InRange(ms, duration) == \A k \in 1..Len(ms) : 0 <= ms[k].timestamp /\ ms[k].timestamp <= duration
C8_TimestampsWithinMatch ==
  keyMoments # Undefined =>
    /\ InRange(keyMoments.moments, momentInput.matchData.duration)
    /\ InRange(keyMoments.topMoments, momentInput.matchData.duration)

\* C3: however often a match is requested, re-analyzed or backfilled, a
\* (matchId, slot) pair contributes at most one sample to the hero statistics.
C3_OneSamplePerMatch == \A k \in MatchKeys : contributed[k] <= 1

\* a call of getMatchAnalysis ends in this step
CallEnds == last'.seq = last.seq + 1

NothingWritten ==
  /\ last'.detectors = {}
  /\ last'.fired = <<>>
  /\ saves' = saves
  /\ updates' = updates
  /\ analyzed_matches' = analyzed_matches
  /\ hero_statistics' = hero_statistics
  /\ contributed' = contributed

\* C4: a call whose cache check finds a stored row for the requested
\* (matchId, playerSlot) returns a result built from that row, invokes no
\* detector and leaves the analyzed_matches row and the hero statistics as
\* they are; a call with a requested slot goes on to fetch only when no row is stored.
C4_CacheHitRunsNothing ==
  [][ /\ (CallEnds /\ last'.kind = "cached") =>
           /\ NothingWritten
           /\ "playerSlot" \in DOMAIN last'.request
           /\ LET row == getCachedMatchAnalysis(last'.request.matchId, last'.request.playerSlot)
              IN /\ row # NoRow
                 /\ last'.result = CachedResult(row)
      /\ \A i \in 1..Len(calls) :
           (/\ Len(calls') = Len(calls)
            /\ calls[i].pc = "cache" /\ calls'[i].pc = "fetch"
            /\ "playerSlot" \in DOMAIN calls[i].request)
           => getCachedMatchAnalysis(calls[i].request.matchId, calls[i].request.playerSlot) = NoRow
    ]_vars

C4_Witness ==
  /\ last.kind = "cached"
  /\ last.request = [matchId |-> "m1", playerSlot |-> 0]
  /\ last.result.cached
  /\ last.result.heroName = "h1"
  /\ contributed[[matchId |-> "m1", slot |-> 0]] = 1
  /\ saves = <<>> /\ updates = <<>> /\ calls = <<>>

\* the coaching-text generator is unavailable or its reply cannot be parsed
Unavailable(env) ==
  \/ ~env.hasKey
  \/ env.rateLimited > MaxRetries
  \/ "error" \in DOMAIN env.final
  \/ ("type" \in DOMAIN env.final /\ env.final.type # "text")
  \/ ("json" \in DOMAIN env.final /\ env.final.json \in {"none", "invalid"})

\* C5: in a full analysis the generator never throws; when it is unavailable
\* it returns nothing; when it returns nothing the base insights are exactly
\* the rule-based ones; when it returns an insight the base insights are its
\* insights and no rule-based insight is in the result.
C5_AiAndRulesAreAlternatives ==
  /\ (last.seq = 1 /\ last.fetch = "ok"
        /\ \E k \in 1..Len(Provider(last.request.matchId).players) :
             Provider(last.request.matchId).players[k].player_slot = TargetSlot(last.request))
     => last.kind = "full"
  /\ last.kind = "full" =>
       LET r == last.result
           p == TargetPlayer(Provider(last.request.matchId), last.request)
           rules == analyzePlayerPerformance(StatsOf(p), Provider(last.request.matchId).duration)
       IN /\ r.ruleInsights = rules
          /\ Unavailable(last.env) => r.aiInsights = <<>>
          /\ r.aiInsights = <<>> => r.allInsights = rules
          /\ r.aiInsights # <<>> =>
               /\ r.allInsights = r.aiInsights
               /\ \A k \in 1..Len(r.insights), j \in 1..Len(rules) : r.insights[k] # rules[j]
          /\ SubSeq(r.insights, 1, Len(r.allInsights)) = r.allInsights

C5_Witness ==
  /\ last.kind = "full"
  /\ last.env.rateLimited = MaxRetries
  /\ Len(last.result.aiInsights) > 0
  /\ Len(last.result.ruleInsights) > 0
  /\ last.result.allInsights = last.result.aiInsights

\* no participant of the fetched match has the requested slot
NoParticipantInSlot(request) ==
  \A k \in 1..Len(Provider(request.matchId).players) :
     Provider(request.matchId).players[k].player_slot # TargetSlot(request)

\* C6: a call that fetched a match none of whose participants has the
\* requested slot returns null (404), having run no detector, fired no save
\* and no statistics update, and changed no table.
C6_MissingSlotIsNotFound ==
  [][ (CallEnds /\ last'.fetch = "ok" /\ NoParticipantInSlot(last'.request)) =>
        /\ last'.kind = "null"
        /\ HttpStatus(last'.kind) = 404
        /\ last'.result = Undefined
        /\ NothingWritten
    ]_vars

C6_Witness ==
  /\ last.fetch = "ok"
  /\ last.request = [matchId |-> "m1", playerSlot |-> 1]
  /\ last.kind = "null"
  /\ \A k \in MatchKeys : analyzed_matches[k] = NoRow /\ contributed[k] = 0

Severities == {"low", "medium", "high", "critical"}
Categories == {"positioning", "itemization", "farm_efficiency", "vision", "teamfight",
               "decision_making"}
InsightTypes == {"mistake", "missed_opportunity", "good_play"}

\* C7: every insight of a returned result has its severity, category and
\* insightType in the closed sets, item-build insights included.
C7_InsightEnumsClosed ==
  last.kind \in {"full", "cached"} =>
    \A k \in 1..Len(last.result.insights) :
       /\ Field(last.result.insights[k], "severity") \in Severities
       /\ Field(last.result.insights[k], "category") \in Categories
       /\ Field(last.result.insights[k], "insightType") \in InsightTypes

\* The call of the detector `fn` has returned.
Returned_(fn) == detectorCall # Undefined /\ detectorCall.fn = fn /\ detectorResult # Undefined

\* the number of losses at the head of a history
LeadingLosses(ms) ==
  CHOOSE k \in 0..Len(ms) :
    /\ \A i \in 1..k : ~ms[i].won
    /\ k < Len(ms) => ms[k + 1].won

\* C12: for every non-empty match history, currentTiltRisk is high if the
\* losing streak is >= 5 or an active warning has danger severity, otherwise
\* medium if the streak is >= 3 or at least 2 warnings are active, otherwise
\* low; the losing-streak warning is present exactly when the streak is >= 3
\* and is of danger severity exactly when the streak is >= 5.
C12_TiltRiskClassification ==
  Returned_("getTiltAnalysis") /\ Len(detectorCall.matches) > 0 =>
    LET r == detectorResult
        streak == LeadingLosses(detectorCall.matches)
        ws == r.activeWarnings
        danger == \E i \in 1..Len(ws) : ws[i].severity = "danger"
        streakWarnings == {i \in 1..Len(ws) : ws[i].type = "losing_streak"}
    IN /\ r.recentLosingStreak = streak
       /\ r.currentTiltRisk = "high" <=> (streak >= 5 \/ danger)
       /\ r.currentTiltRisk = "medium" <=>
            (~(streak >= 5 \/ danger) /\ (streak >= 3 \/ Len(ws) >= 2))
       /\ r.currentTiltRisk = "low" <=>
            (~(streak >= 5 \/ danger) /\ ~(streak >= 3 \/ Len(ws) >= 2))
       /\ (streakWarnings # {}) <=> streak >= 3
       /\ \A i \in streakWarnings : (ws[i].severity = "danger") <=> streak >= 5

\* A history that opens with a win, with a poor late-night and a poor
\* long-session win rate: two warnings, no streak, medium risk.
C12_Witness ==
  /\ Returned_("getTiltAnalysis")
  /\ Len(detectorCall.matches) = 6
  /\ detectorCall.matches[1].won
  /\ Len(detectorResult.activeWarnings) = 2
  /\ detectorResult.recentLosingStreak = 0
  /\ detectorResult.currentTiltRisk = "medium"

\* the number of rows whose hour falls in the named time-of-day bucket
GamesIn(name) ==
  LET lo == CASE name = "Morning" -> 6 [] name = "Afternoon" -> 12
              [] name = "Evening" -> 18 [] OTHER -> 0
      hi == CASE name = "Morning" -> 12 [] name = "Afternoon" -> 18
              [] name = "Evening" -> 24 [] OTHER -> 6
  IN Len(SelectSeq(detectorCall.hourRows, LAMBDA r : r.hour >= lo /\ r.hour < hi))

\* C13: getTimeOfDayStats names a bucket as bestTimeToPlay only if that bucket
\* holds at least 3 matches, and reports 'Not enough data' whenever no bucket
\* holds at least 3 matches.
C13_BestTimeNeedsThreeMatches ==
  Returned_("getTimeOfDayStats") =>
    LET best == detectorResult.bestTimeToPlay
        Buckets == {"Morning", "Afternoon", "Evening", "Night"}
    IN /\ best \in Buckets => GamesIn(best) >= 3
       /\ (\A b \in Buckets : GamesIn(b) < 3) => best = "Not enough data"

\* the a-th smallest member of a set of numbers
Nth(A, k) == CHOOSE a \in A : Cardinality({b \in A : b < a}) = k - 1

\* C14: the death-cluster scan reports the triples of consecutive deaths that
\* span <= 300 s, taken greedily from the first death on: reported triples
\* share no death, a triple is left out only if it overlaps a reported one
\* that starts before it, a triple spanning more than 300 s is never
\* reported, and each insight's gameTime is the first death of its triple;
\* deaths at 60, 120, 180, 600 give one insight, at 60, that does not reach 600.
C14_DeathClustersDisjoint ==
  Returned_("analyzeTimelineInsights") =>
    LET d == ArrayOf(detectorCall.timelineData, "killsLog")
        out == SelectSeq(detectorResult.value, LAMBDA x : x.title = "Death cluster detected")
        Within == {i \in 1..(Len(d) - 2) : d[i + 2].time - d[i].time <= 300}
    IN /\ \E A \in SUBSET Within :
            /\ \A a, b \in A : a < b => b >= a + 3
            /\ \A i \in Within \ A : \E a \in A : a < i /\ i <= a + 2
            /\ Len(out) = Cardinality(A)
            /\ \A k \in 1..Len(out) :
                 /\ out[k].gameTime = d[Nth(A, k)].time
                 /\ out[k].description.to = d[Nth(A, k) + 2].time
       /\ d = <<[time |-> 60], [time |-> 120], [time |-> 180], [time |-> 600]>> =>
            /\ Len(out) = 1
            /\ out[1].gameTime = 60
            /\ out[1].description.to = 180

\* Six deaths, three within 120 s and three more within 300 s: two clusters.
C14_Witness ==
  /\ Returned_("analyzeTimelineInsights")
  /\ Len(ArrayOf(detectorCall.timelineData, "killsLog")) = 6
  /\ Len(detectorResult.value) = 2
  /\ detectorResult.value[1].gameTime = 60
  /\ detectorResult.value[2].gameTime = 400

\* the stored rows of a user, as keys of the table
RowsOf(user) ==
  {k \in MatchKeys : analyzed_matches[k] # NoRow /\ analyzed_matches[k].user_id = [id |-> user]}

\* the keys K as a sequence, by descending rank
Descending(K, rank(_)) ==
  CHOOSE f \in [1..Cardinality(K) -> K] :
    /\ \A i, j \in 1..Cardinality(K) : i < j => rank(f[i]) >= rank(f[j]) /\ f[i] # f[j]

\* C11: recentLosingStreak is the count of consecutive losses from the user's
\* most recent match backward, most recent meaning latest in match start
\* time, whatever order the matches were analyzed or backfilled in.
C11_StreakFollowsMatchTime ==
  \A user \in Accounts :
    LET byAnalyzedAt == Descending(RowsOf(user), LAMBDA k : analyzed_matches[k].analyzed_at)
        byStartTime == Descending(RowsOf(user), LAMBDA k : provider[k.matchId].start_time)
        queried == [i \in 1..Len(byAnalyzedAt) |-> analyzed_matches[byAnalyzedAt[i]]]
        played == [i \in 1..Len(byStartTime) |-> analyzed_matches[byStartTime[i]]]
    IN getTiltAnalysis(queried, <<>>, <<>>, FALSE).recentLosingStreak = LeadingLosses(played)

\* the tracked player of the key-moment extraction, Undefined when not in the match
Tracked ==
  Find(SelectSeq(momentInput.matchData.players,
                 LAMBDA q : AccountOf(q) = momentInput.playerAccountId))

\* the tracked player's kill times in ascending order
SortedKills ==
  LET log == ArrayOf(Tracked, "kills_log")
  IN SortNumbers([k \in 1..Len(log) |-> log[k].time])

\* the maximal runs <<first, last>> of two or more kills with gaps <= 18 s
Runs(s) ==
  {r \in (1..Len(s)) \X (1..Len(s)) :
     /\ r[1] < r[2]
     /\ \A i \in r[1]..(r[2] - 1) : s[i + 1] - s[i] <= 18
     /\ r[1] = 1 \/ s[r[1]] - s[r[1] - 1] > 18
     /\ r[2] = Len(s) \/ s[r[2] + 1] - s[r[2]] > 18}

\* One multikill moment per maximal run: its timestamp the run's first kill,
\* its killStreak the run's length, its label by length with `rampage` for 5
\* or more; kills 100, 110, 125, 300 in any order give one Triple Kill at 100.
OneMomentPerRun(rampage) ==
  keyMoments # Undefined /\ Tracked # Undefined =>
    LET s == SortedKills
        mk == SelectSeq(keyMoments.moments, LAMBDA m : m.type = "multikill")
    IN /\ Len(mk) = Cardinality(Runs(s))
       /\ \A r \in Runs(s) : \E i \in 1..Len(mk) :
            LET n == r[2] - r[1] + 1
            IN /\ mk[i].timestamp = s[r[1]]
               /\ mk[i].detail = n
               /\ mk[i].importance = "high"
               /\ mk[i].title = (IF n >= 5 THEN rampage ELSE IF n = 4 THEN "Ultra Kill"
                                 ELSE IF n = 3 THEN "Triple Kill" ELSE "Double Kill")
       /\ s = <<100, 110, 125, 300>> =>
            /\ Len(mk) = 1
            /\ mk[1].timestamp = 100 /\ mk[1].detail = 3 /\ mk[1].title = "Triple Kill"

\* C15 as stated: one multikill moment per maximal run of kills with gaps
\* <= 18 s, anchored at the run's first kill, killStreak the run's length,
\* labelled Double Kill, Triple Kill, Ultra Kill, and Rampage for 5 or more.
C15_OneMultiKillPerRun == OneMomentPerRun("Rampage")

\* C15 amended: the same, with the label of a run of 5 or more kills being
\* the upper-case RAMPAGE that getStreakName returns.
C15_OneMultiKillPerRunUpperCase == OneMomentPerRun("RAMPAGE")

\* Five kills logged out of time order, all within 18 s of the next: one RAMPAGE.
C15_Witness ==
  /\ keyMoments # Undefined /\ Tracked # Undefined
  /\ Len(SortedKills) = 5
  /\ [k \in 1..5 |-> Tracked.kills_log[k].time] # SortedKills
  /\ \E i \in 1..Len(keyMoments.moments) :
       /\ keyMoments.moments[i].type = "multikill"
       /\ keyMoments.moments[i].detail = 5
       /\ keyMoments.moments[i].timestamp = 100

\* how often the moment m occurs in the list ms
Occurrences(ms, m) == Cardinality({i \in 1..Len(ms) : ms[i] = m})

\* the score as the ranking is described
StatedScore(m) ==
  (CASE m.importance = "high" -> 10 [] m.importance = "medium" -> 5 [] OTHER -> 2)
  + (CASE m.type = "multikill" -> 8
       [] m.type = "comeback" -> 7
       [] m.type = "team_fight" -> 6
       [] m.type = "objective" /\ m.title = "Roshan Slain" -> 5
       [] OTHER -> 0)
  + (IF m.title = "First Blood!" THEN 5 ELSE 0)

\* C16: of the chronological moment list L the top 5 are min(5, |L|) moments
\* of L in ascending timestamp order; no moment left out scores strictly
\* higher than a selected one, and a moment left out that scores the same as
\* a selected one is not earlier than it; the score is the importance base
\* plus the type bonus.
C16_TopFiveByScore ==
  keyMoments # Undefined =>
    LET L == keyMoments.moments
        T == keyMoments.topMoments
        LeftOut == {L[i] : i \in {j \in 1..Len(L) : Occurrences(L, L[j]) > Occurrences(T, L[j])}}
    IN /\ Len(T) = Min(TopCount, Len(L))
       /\ \A k \in 1..Len(T) : Occurrences(T, T[k]) <= Occurrences(L, T[k])
       /\ \A k \in 1..(Len(T) - 1) : T[k].timestamp <= T[k + 1].timestamp
       /\ \A i \in 1..Len(L) : scoreMoment(L[i]) = StatedScore(L[i])
       /\ \A m \in LeftOut : \A k \in 1..Len(T) :
            /\ StatedScore(m) <= StatedScore(T[k])
            /\ StatedScore(m) = StatedScore(T[k]) => T[k].timestamp <= m.timestamp

\* More than 5 moments, one of them left out although it scores the same as
\* a selected one.
C16_Witness ==
  /\ keyMoments # Undefined
  /\ Len(keyMoments.moments) > TopCount
  /\ Len(keyMoments.topMoments) = TopCount
  /\ \E i \in 1..Len(keyMoments.moments), k \in 1..TopCount :
       /\ Occurrences(keyMoments.topMoments, keyMoments.moments[i]) = 0
       /\ StatedScore(keyMoments.moments[i]) = StatedScore(keyMoments.topMoments[k])
       /\ keyMoments.topMoments[k].timestamp < keyMoments.moments[i].timestamp

LastMatch == provider[last.request.matchId]
LastPlayer == TargetPlayer(LastMatch, last.request)

\* the score changes of the item-build rules for the last analysis, rule by rule
RuleDeltas ==
  LET role == last.result.detectedRole
      items == last.result.itemBuild.items
      duration == LastMatch.duration
      stats == [kills |-> LastPlayer.kills, deaths |-> LastPlayer.deaths,
                gpm |-> LastPlayer.gold_per_min, netWorth |-> LastPlayer.net_worth]
  IN BkbCheck(items, role, duration).delta + MobilityCheck(items, role).delta
     + LateGameCheck(items, duration).delta + DamageCheck(items, role, stats).delta
     + DefensiveCheck(items, stats).delta + FarmCheck(items, role, stats).delta

\* C18: the itemScore of every analysis is an integer in [0,100]: 70 plus the
\* bonuses and penalties of the rules, clamped to [0,100].
C18_ItemScoreClamped ==
  last.kind = "full" =>
    LET score == last.result.itemBuild.score
        raw == BaseItemScore + RuleDeltas
    IN /\ score \in 0..100
       /\ score = (IF raw < 0 THEN 0 ELSE IF raw > 100 THEN 100 ELSE raw)

\* An analysis in which four penalties stack.
C18_Witness ==
  /\ last.kind = "full"
  /\ RuleDeltas <= -40
  /\ last.result.itemBuild.score = BaseItemScore + RuleDeltas

\* the role the stated rule gives a participant of a match of the given duration
StatedRole(p, duration) ==
  IF p.gold_per_min > 350 \/ p.last_hits * 60 > 3 * duration THEN "Core" ELSE "Support"

\* the participant a stored row is about
ParticipantOf(key) ==
  Find(SelectSeq(provider[key.matchId].players, LAMBDA q : q.player_slot = key.slot))

\* C19: every place that derives a role yields the role of the stated rule
\* (Core if goldPerMin > 350 or lastHits/durationMinutes > 3, else Support):
\* the role stored with a match, by an analysis or by the backfill, the role
\* an analysis returns and hands to the item-build analyzer, and the core /
\* support split the performance detector applies its rules with.
C19_OneRoleFunction ==
  /\ \A key \in MatchKeys :
       analyzed_matches[key] # NoRow /\ ParticipantOf(key) # Undefined =>
         analyzed_matches[key].detected_role
           = StatedRole(ParticipantOf(key), provider[key.matchId].duration)
  /\ last.kind = "full" =>
       /\ last.result.detectedRole = StatedRole(LastPlayer, LastMatch.duration)
       /\ isCoreSlot(LastPlayer.player_slot)
            <=> StatedRole(LastPlayer, LastMatch.duration) = "Core"

\* the insights the item-build analyzer emits in the last analysis
LastItemInsights ==
  analyzeItemBuild(last.result.detectedRole, FinalItems(LastPlayer), LastMatch.duration,
                   [kills |-> LastPlayer.kills, deaths |-> LastPlayer.deaths,
                    gpm |-> LastPlayer.gold_per_min,
                    netWorth |-> LastPlayer.net_worth]).insights

\* the number of insights the summary counts
Counted(summary) ==
  summary.criticalMistakes + summary.highMistakes + summary.mediumMistakes
  + summary.lowMistakes

\* C20: an analysis that is not a cache hit runs every single-match detector,
\* the timeline detector and the item-build analyzer included; every insight
\* the performance detector, the AI coach and the item-build analyzer emit is
\* in the returned insight list, and the summary counts every returned insight.
C20_AllDetectorsMerged ==
  last.kind = "full" =>
    /\ {"performance", "timeline", "itemBuild"} \subseteq last.detectors
    /\ \A k \in 1..Len(last.result.ruleInsights) :
         Includes(last.result.insights, last.result.ruleInsights[k])
    /\ \A k \in 1..Len(last.result.aiInsights) :
         Includes(last.result.insights, last.result.aiInsights[k])
    /\ \A k \in 1..Len(LastItemInsights) :
         Includes(last.result.insights, CombinedItemInsight(LastItemInsights[k]))
    /\ Counted(last.result.summary) = Len(last.result.insights)

\* the sample count of a hero's row, 0 when the hero has no row
SampleCount(row) == IF row = NoRow THEN 0 ELSE row.total_matches

\* C21: no step lowers a hero's total_matches or removes its row, whether the
\* updateHeroStatistics call that takes the step succeeds or fails.
C21_TotalMatchesNeverDecreases ==
  [][\A h \in Heroes :
       /\ SampleCount(hero_statistics'[h]) >= SampleCount(hero_statistics[h])
       /\ hero_statistics[h] # NoRow => hero_statistics'[h] # NoRow]_vars

\* A hero whose row was counted up after one of its calls failed on the INSERT:
\* more calls returned than the row counts.
C21_Witness ==
  \E h \in Heroes :
    /\ hero_statistics[h] # NoRow
    /\ hero_statistics[h].total_matches - baseline[h].n >= 2
    /\ recorded[h].n > hero_statistics[h].total_matches - baseline[h].n

\* the insights of the returned list that carry the given title
Titled(title) == SelectSeq(detectorResult.value, LAMBDA x : x.title = title)

\* C22: the farm-drought scan reports only windows of three consecutive
\* minutes, starting at minute 10 or later, in each of which fewer than 2 last
\* hits were added to the cumulative array; gameTime is the start minute times
\* 60; reported windows share no minute; and a window that meets the condition
\* and overlaps no reported window that starts before it is reported.
C22_FarmDroughtWindows ==
  Returned_("analyzeTimelineInsights") =>
    LET lh == ArrayOf(detectorCall.timelineData, "lhTimeline")
        Dry == {m \in 10..(Len(lh) - 4) :
                  \A j \in m..(m + 2) : lh[j + 2] - lh[j + 1] < 2}
        out == Titled("Extended farm drought")
    IN /\ \A k \in 1..Len(out) :
            /\ out[k].gameTime % 60 = 0
            /\ out[k].gameTime \div 60 \in Dry
       /\ \A j, k \in 1..Len(out) : j < k => out[k].gameTime >= out[j].gameTime + 180
       /\ \A m \in Dry :
            (\A k \in 1..Len(out) :
               ~(out[k].gameTime \div 60 < m /\ m <= out[k].gameTime \div 60 + 2))
            => \E k \in 1..Len(out) : out[k].gameTime = m * 60

\* Six idle minutes from minute 10 on, after idle minutes 7 to 9: two windows
\* are reported, at 10:00 and 13:00, and none for the idle opening.
C22_Witness ==
  /\ Returned_("analyzeTimelineInsights")
  /\ "lhTimeline" \in DOMAIN detectorCall.timelineData
  /\ Len(detectorCall.timelineData.lhTimeline) = 17
  /\ detectorCall.timelineData.lhTimeline[8] = detectorCall.timelineData.lhTimeline[11]
  /\ Len(Titled("Extended farm drought")) = 2
  /\ Titled("Extended farm drought")[1].gameTime = 600
  /\ Titled("Extended farm drought")[2].gameTime = 780

\* the fights of the call in which the scan finds a sub-record for the player
\* and the sub-record meets the poor (the excellent) condition
PoorFights ==
  LET fights == ArrayOf(detectorCall.timelineData, "teamfights")
      at == playerIndex(detectorCall.playerSlot) + 1
  IN {k \in 1..Len(fights) :
        /\ at <= Len(fights[k].players)
        /\ fights[k].players[at].deaths > 0
        /\ fights[k].players[at].damage < 500}

ExcellentFights ==
  LET fights == ArrayOf(detectorCall.timelineData, "teamfights")
      at == playerIndex(detectorCall.playerSlot) + 1
  IN {k \in 1..Len(fights) :
        /\ at <= Len(fights[k].players)
        /\ fights[k].players[at].deaths = 0
        /\ fights[k].players[at].damage > 2000
        /\ fights[k].players[at].gold_delta > 500}

\* the one insight of the title, anchored at the first fight of K, exactly when K has a fight
AnchoredAtFirst(title, K) ==
  LET fights == ArrayOf(detectorCall.timelineData, "teamfights")
      out == Titled(title)
  IN /\ Len(out) <= 1
     /\ Len(out) = 1 <=> K # {}
     /\ K # {} => out[1].gameTime = fights[CHOOSE k \in K : \A j \in K : k <= j].start

\* C23: at most one poor-teamfight and at most one excellent-teamfight insight
\* are emitted; the poor one is anchored at the start of the first fight in
\* which the player's sub-record has deaths > 0 and damage < 500, the
\* excellent one at the start of the first fight with deaths = 0, damage >
\* 2000 and gold delta > 500, and each is emitted whenever such a fight exists.
C23_OneInsightPerPolarity ==
  Returned_("analyzeTimelineInsights") =>
    /\ AnchoredAtFirst("Poor teamfight execution", PoorFights)
    /\ AnchoredAtFirst("Excellent teamfight performance", ExcellentFights)

\* Three fights, two of them poor and one excellent, the first poor one not
\* being the first fight.
C23_Witness ==
  /\ Returned_("analyzeTimelineInsights")
  /\ Cardinality(PoorFights) = 2
  /\ 1 \notin PoorFights
  /\ ExcellentFights # {}
  /\ Len(Titled("Poor teamfight execution")) = 1
  /\ Len(Titled("Excellent teamfight performance")) = 1

\* C24: a death-cluster insight is critical when at least 4 deaths fall
\* within 300 s counted from the cluster's first death, and high when exactly
\* 3 do; deaths at 60, 120, 180, 200 give a critical insight.
C24_ClusterSeverityByDeathsInWindow ==
  Returned_("analyzeTimelineInsights") =>
    LET d == ArrayOf(detectorCall.timelineData, "killsLog")
        out == Titled("Death cluster detected")
        held(first) == Len(SelectSeq(d, LAMBDA x : x.time >= first /\ x.time <= first + 300))
    IN \A k \in 1..Len(out) :
         /\ held(out[k].gameTime) >= 4 => out[k].severity = "critical"
         /\ held(out[k].gameTime) = 3 => out[k].severity = "high"

\* the player slots of a match: 0..4 on one side, 128..132 on the other
ParticipantSlots == 0..4 \cup 128..132

\* C27: whenever the team-fight scan judges a player on a sub-record, no other
\* participant of the match is read at the same position of the snapshot's
\* per-participant list.
C27_FightIndexDistinctPerSlot ==
  Returned_("analyzeTimelineInsights")
  /\ PoorFights \cup ExcellentFights # {} =>
    \A other \in ParticipantSlots \ {detectorCall.playerSlot} :
      playerIndex(other) # playerIndex(detectorCall.playerSlot)

\* the tracked player's kill times and death minutes (in seconds), merged in ascending order
FightEvents ==
  LET log == ArrayOf(Tracked, "kills_log")
      dead == DeadMinutes(Tracked)
  IN SortNumbers([k \in 1..Len(log) |-> log[k].time] \o [k \in 1..Len(dead) |-> dead[k] * 60])

\* C25: the team_fight moments are the runs a left-to-right scan of the merged,
\* sorted kill and death-minute times finds: a run starts at an event whose
\* second successor is within 30 s, holds every following event within 30 s of
\* its first event, and the scan resumes after it.  The moment's timestamp is
\* the run's first event, its importance high for 5 or more events and medium
\* otherwise, no event is in two runs, and no triple within 30 s lies outside
\* the runs.
C25_TeamFightRuns ==
  keyMoments # Undefined /\ Tracked # Undefined =>
    LET ev == FightEvents
        fights == SelectSeq(keyMoments.moments, LAMBDA m : m.type = "team_fight")
        Close == {i \in 1..(Len(ev) - 2) : ev[i + 2] - ev[i] <= 30}
    IN \E A \in SUBSET Close :
         /\ Cardinality(A) = Len(fights)
         /\ \A k \in 1..Len(fights) :
              LET first == Nth(A, k)
                  size == fights[k].detail
              IN /\ fights[k].timestamp = ev[first]
                 /\ size >= 3
                 /\ first + size - 1 <= Len(ev)
                 /\ ev[first + size - 1] - ev[first] <= 30
                 /\ first + size <= Len(ev) => ev[first + size] - ev[first] > 30
                 /\ fights[k].importance = (IF size >= 5 THEN "high" ELSE "medium")
                 /\ k < Len(fights) => Nth(A, k + 1) >= first + size
                 /\ \A i \in Close : i < first =>
                      \E j \in 1..(k - 1) : i < Nth(A, j) + fights[j].detail
         /\ \A i \in Close :
              \E k \in 1..Len(fights) : Nth(A, k) <= i /\ i < Nth(A, k) + fights[k].detail

\* Kills at 100, 110, 125 and deaths in minutes 1 and 2: the death at 60 is
\* outside, the death at 120 inside the one fight of 4 events.
C25_Witness ==
  /\ keyMoments # Undefined
  /\ Tracked # Undefined
  /\ FightEvents = <<60, 100, 110, 120, 125>>
  /\ \E k \in 1..Len(keyMoments.moments) :
       /\ keyMoments.moments[k].type = "team_fight"
       /\ keyMoments.moments[k].timestamp = 100
       /\ keyMoments.moments[k].detail = 4
       /\ keyMoments.moments[k].importance = "medium"

\* C26: an optional input that is absent is no data for the checks that need
\* it: without a kill log no death cluster is reported, without a last-hit
\* timeline no farm drought, without team-fight snapshots no team-fight
\* insight, and without ward counts no vision insight, for a Support too.
C26_AbsentInputIsNoData ==
  /\ Returned_("analyzeTimelineInsights") =>
       /\ "killsLog" \notin DOMAIN detectorCall.timelineData
            => Titled("Death cluster detected") = <<>>
       /\ "lhTimeline" \notin DOMAIN detectorCall.timelineData
            => Titled("Extended farm drought") = <<>>
       /\ "teamfights" \notin DOMAIN detectorCall.timelineData
            => /\ Titled("Poor teamfight execution") = <<>>
               /\ Titled("Excellent teamfight performance") = <<>>
  /\ Returned_("analyzePlayerPerformance") =>
       ({"obsPlaced", "senPlaced"} \cap DOMAIN detectorCall.stats = {}
          => \A k \in 1..Len(detectorResult.value) :
               detectorResult.value[k].category # "vision")

\* C28: the key moments an analysis returns are those of the record of the
\* participant at the requested slot, whose stats feed the other detectors:
\* they equal the key moments of the match with that participant alone.
C28_KeyMomentsOfRequestedSlot ==
  last.kind = "full" =>
    last.result.keyMoments.moments
      = extractKeyMoments([LastMatch EXCEPT !.players = <<LastPlayer>>],
                          AccountOf(LastPlayer)).moments

\* fetchMatchFromOpenDota is called for an id that is not the demo id
Fetching == detectorCall # Undefined /\ detectorCall.fn = "fetchMatchFromOpenDota"
            /\ ~detectorCall.demo

\* C29: fetchMatchFromOpenDota always terminates.  It makes at most 4 requests,
\* waits 1 s, 2 s and 4 s before the retries, retries only after a 403 or a
\* 429, fails with the rate-limit error exactly when the fourth request is
\* rate-limited too, and ends with the not-found value right at the first 404
\* or other error, without a retry.
C29_FetchTerminates ==
  /\ [](Fetching =>
          LET answers == detectorCall.answers
              waits == detectorCall.waits
          IN /\ Len(answers) <= 4
             /\ \A k \in 1..Len(waits) : k <= 3 /\ waits[k] = <<1000, 2000, 4000>>[k]
             /\ \A k \in 1..(Len(answers) - 1) : answers[k] \in {"403", "429"}
             /\ detectorResult = Undefined =>
                  /\ Len(waits) = Len(answers)
                  /\ \A k \in 1..Len(answers) : answers[k] \in {"403", "429"}
             /\ detectorResult # Undefined =>
                  /\ Len(answers) >= 1
                  /\ Len(waits) = Len(answers) - 1
                  /\ "threw" \in DOMAIN detectorResult
                       <=> Len(answers) = 4 /\ answers[4] \in {"403", "429"}
                  /\ answers[Len(answers)] \in {"404", "500", "timeout", "empty"}
                       => detectorResult = [value |-> "null"])
  /\ (Fetching ~> detectorResult # Undefined)

\* Four rate-limited requests, with waits of 1 s, 2 s and 4 s, then the rate-limit error.
C29_Witness ==
  /\ Fetching
  /\ Len(detectorCall.answers) = 4
  /\ detectorCall.waits = <<1000, 2000, 4000>>
  /\ detectorResult # Undefined
  /\ "threw" \in DOMAIN detectorResult

\* the items of the defensive list the recommendation names
DefensiveNames == {"Black King Bar", "Linken's Sphere", "Aeon Disk", "Lotus Orb",
                   "Heart of Tarrasque", "Eye of Skadi"}

\* C30: a build with Black King Bar on a Core, in a match longer than 25
\* minutes with more than 8 deaths, is not both credited with 'Built BKB for
\* survivability' and penalized for having no defensive items; holding any
\* item of the defensive list suppresses the defensive-item penalty.
C30_BkbIsDefensive ==
  last.kind = "full" /\ LastPlayer.deaths > 8 =>
    LET build == last.result.itemBuild
        penalized == Includes(build.keyIssues, "High deaths, no defensive items")
    IN /\ last.result.detectedRole = "Core" /\ LastMatch.duration > 25 * 60
          /\ Includes(build.items, "Black King Bar")
          => ~(Includes(build.positives, "Built BKB for survivability") /\ penalized)
       /\ (\E k \in 1..Len(build.items) : build.items[k] \in DefensiveNames) => ~penalized

====
